---- MODULE Spec2Model ----
(***************************************************************************)
(* Customer ingestion pipeline of the WhatsApp CRM backend:                *)
(*   routes/customers.py      upload_customers (HTTP endpoint)             *)
(*   services/file_service.py FileUploadService.upload_file                *)
(*   services/customer_service.py CustomerService.upload_customers         *)
(*   utils/classifier.py      parse_csv_file, _parse_pdf_file,             *)
(*                            classify_customers                           *)
(*                                                                         *)
(* Strings are sequences of one-character strings, so that lower(),        *)
(* strip(), replace(), endswith() and rsplit() are computed character by   *)
(* character.  A cell of a table is a record [t, n, s]: a number, the      *)
(* absent value NaN, or a string.                                          *)
(***************************************************************************)
EXTENDS Integers, Sequences, FiniteSets, TLC

(* ------------------------------------------------------------------ *)
(* Strings                                                            *)
(* ------------------------------------------------------------------ *)

\* str.lower() on one character (ASCII letters)
LowerChar(c) ==
    CASE c = "A" -> "a" [] c = "B" -> "b" [] c = "C" -> "c" [] c = "D" -> "d"
      [] c = "E" -> "e" [] c = "F" -> "f" [] c = "G" -> "g" [] c = "H" -> "h"
      [] c = "I" -> "i" [] c = "J" -> "j" [] c = "K" -> "k" [] c = "L" -> "l"
      [] c = "M" -> "m" [] c = "N" -> "n" [] c = "O" -> "o" [] c = "P" -> "p"
      [] c = "Q" -> "q" [] c = "R" -> "r" [] c = "S" -> "s" [] c = "T" -> "t"
      [] c = "U" -> "u" [] c = "V" -> "v" [] c = "W" -> "w" [] c = "X" -> "x"
      [] c = "Y" -> "y" [] c = "Z" -> "z" [] OTHER -> c

\* str.lower()
Lower(s) == [i \in 1..Len(s) |-> LowerChar(s[i])]

\* the characters Python's str.strip() and the regex class \s treat as whitespace
IsSpace(c) == c \in {" ", "\t", "\n"}

RECURSIVE LStrip(_)
LStrip(s) == IF s # <<>> /\ IsSpace(Head(s)) THEN LStrip(Tail(s)) ELSE s

RECURSIVE RStrip(_)
RStrip(s) ==
    IF s # <<>> /\ IsSpace(s[Len(s)]) THEN RStrip(SubSeq(s, 1, Len(s) - 1)) ELSE s

\* str.strip()
Strip(s) == RStrip(LStrip(s))

\* str.replace(' ', '_')
ReplaceSpaces(s) == [i \in 1..Len(s) |-> IF s[i] = " " THEN "_" ELSE s[i]]

\* str.endswith(suffix)
EndsWith(s, suf) ==
    /\ Len(suf) <= Len(s)
    /\ SubSeq(s, Len(s) - Len(suf) + 1, Len(s)) = suf

\* str.rsplit('.', 1)[-1]: the text after the last dot, the whole string without one
RECURSIVE AfterLastDot(_)
AfterLastDot(s) ==
    IF \A i \in 1..Len(s) : s[i] # "."
    THEN s
    ELSE AfterLastDot(Tail(s))

IsDigit(c) == c \in {"0", "1", "2", "3", "4", "5", "6", "7", "8", "9"}

DigitVal(c) ==
    CASE c = "0" -> 0 [] c = "1" -> 1 [] c = "2" -> 2 [] c = "3" -> 3
      [] c = "4" -> 4 [] c = "5" -> 5 [] c = "6" -> 6 [] c = "7" -> 7
      [] c = "8" -> 8 [] c = "9" -> 9

DigitChar(d) == <<"0", "1", "2", "3", "4", "5", "6", "7", "8", "9">>[d + 1]

\* str(n) of a non-negative integer
RECURSIVE IntToStr(_)
IntToStr(n) ==
    IF n < 10 THEN <<DigitChar(n)>>
    ELSE Append(IntToStr(n \div 10), DigitChar(n % 10))

\* a string int()/float() accept: digits, surrounding whitespace allowed
IsNumeric(s) == Strip(s) # <<>> /\ \A i \in 1..Len(Strip(s)) : IsDigit(Strip(s)[i])

RECURSIVE DigitsVal(_)
DigitsVal(s) ==
    IF s = <<>> THEN 0
    ELSE 10 * DigitsVal(SubSeq(s, 1, Len(s) - 1)) + DigitVal(s[Len(s)])

StrToInt(s) == DigitsVal(Strip(s))

(* ------------------------------------------------------------------ *)
(* Cells                                                              *)
(* ------------------------------------------------------------------ *)

Num(n) == [t |-> "num", n |-> n, s |-> <<>>]
NaN    == [t |-> "nan", n |-> 0, s |-> <<>>]
Txt(s) == [t |-> "str", n |-> 0, s |-> s]

IsNum(c) == c.t = "num"
IsNaN(c) == c.t = "nan"
IsTxt(c) == c.t = "str"

(* ------------------------------------------------------------------ *)
(* Canonical names and other string literals of the code              *)
(* ------------------------------------------------------------------ *)

sName          == <<"n","a","m","e">>
sPhone         == <<"p","h","o","n","e">>
sEmail         == <<"e","m","a","i","l">>
sCategory      == <<"c","a","t","e","g","o","r","y">>
sTotalQuantity == <<"t","o","t","a","l","_","q","u","a","n","t","i","t","y">>
sPurchaseCount == <<"p","u","r","c","h","a","s","e","_","c","o","u","n","t">>
sOrderValue    == <<"o","r","d","e","r","_","v","a","l","u","e">>
sQuantity      == <<"q","u","a","n","t","i","t","y">>
sOrders        == <<"o","r","d","e","r","s">>
sAmount        == <<"a","m","o","u","n","t">>
sNan           == <<"n","a","n">>
sDotZero       == <<".","0">>

extCsv  == <<".","c","s","v">>
extXlsx == <<".","x","l","s","x">>
extXls  == <<".","x","l","s">>
extPdf  == <<".","p","d","f">>

\* CustomerCategory
CustomerCategory == {"bulk_buyer", "frequent_customer", "both", "regular"}

\* column_mapping of parse_csv_file, in the order written
column_mapping ==
    << << <<"c","u","s","t","o","m","e","r","_","n","a","m","e">>, sName >>,
       << <<"c","u","s","t","o","m","e","r">>, sName >>,
       << <<"f","u","l","l","_","n","a","m","e">>, sName >>,
       << <<"p","h","o","n","e","_","n","u","m","b","e","r">>, sPhone >>,
       << <<"m","o","b","i","l","e">>, sPhone >>,
       << <<"c","o","n","t","a","c","t">>, sPhone >>,
       << <<"e","m","a","i","l","_","a","d","d","r","e","s","s">>, sEmail >>,
       << sQuantity, sTotalQuantity >>,
       << <<"q","t","y">>, sTotalQuantity >>,
       << sOrders, sPurchaseCount >>,
       << <<"o","r","d","e","r","_","c","o","u","n","t">>, sPurchaseCount >>,
       << sAmount, sOrderValue >>,
       << <<"t","o","t","a","l","_","a","m","o","u","n","t">>, sOrderValue >>,
       << <<"v","a","l","u","e">>, sOrderValue >> >>

(* ------------------------------------------------------------------ *)
(* Data frames: columns (names, duplicates possible), one dtype per   *)
(* column, rows of cells by position                                  *)
(* ------------------------------------------------------------------ *)

DataFrame(cols, dts, rws) == [columns |-> cols, dtypes |-> dts, rows |-> rws]

EmptyDF == DataFrame(<<>>, <<>>, <<>>)

\* positions of the columns called c
ColIdx(df, c) == {j \in 1..Len(df.columns) : df.columns[j] = c}

\* c in df.columns
HasCol(df, c) == ColIdx(df, c) # {}

\* the last column called c (Series.to_dict keeps the last of equal labels)
LastIdx(df, c) == CHOOSE j \in ColIdx(df, c) : \A k \in ColIdx(df, c) : k <= j

\* df[c] = value, for a column that does not exist yet
AddConstCol(df, c, dt, v) ==
    DataFrame(Append(df.columns, c), Append(df.dtypes, dt),
              [i \in 1..Len(df.rows) |-> Append(df.rows[i], v)])

\* df[c] = df[src], for a column c that does not exist yet
AddCopyCol(df, c, src) ==
    DataFrame(Append(df.columns, c), Append(df.dtypes, df.dtypes[LastIdx(df, src)]),
              [i \in 1..Len(df.rows) |-> Append(df.rows[i], df.rows[i][LastIdx(df, src)])])

\* the dtype pandas infers for column j of a parsed text table: object as soon
\* as one cell is text (or there is no row), float64 when a cell is missing,
\* int64 otherwise
InferDtype(rws, j) ==
    IF rws = <<>> \/ \E i \in 1..Len(rws) : IsTxt(rws[i][j]) THEN "object"
    ELSE IF \E i \in 1..Len(rws) : IsNaN(rws[i][j]) THEN "float"
    ELSE "int"

\* pd.read_csv: every cell of the file is text; in an object column the
\* numbers stay the text they were
CsvCell(c, dt) == IF dt = "object" /\ IsNum(c) THEN Txt(IntToStr(c.n)) ELSE c

\* the frame pd.read_csv builds from a header row and data rows
FrameOfCsv(header, rws) ==
    LET dts == [j \in 1..Len(header) |-> InferDtype(rws, j)]
    IN  DataFrame(header, dts,
            [i \in 1..Len(rws) |->
                [j \in 1..Len(header) |-> CsvCell(rws[i][j], dts[j])]])

\* the frame pd.read_excel builds: spreadsheet cells are typed, a number in
\* an object column stays a number
FrameOfExcel(header, rws) ==
    DataFrame(header, [j \in 1..Len(header) |-> InferDtype(rws, j)], rws)

(* ------------------------------------------------------------------ *)
(* Results of operations that may raise                               *)
(* ------------------------------------------------------------------ *)

NoErr == [exc |-> "none", kind |-> "none", status |-> 0, missing |-> <<>>, found |-> <<>>]

\* an exception of class exc; kind names the message
Err(exc, kind) ==
    [exc |-> exc, kind |-> kind, status |-> 0, missing |-> <<>>, found |-> <<>>]

\* HTTPException(status_code=status, detail=kind)
HttpErr(status, kind) ==
    [exc |-> "HTTPException", kind |-> kind, status |-> status,
     missing |-> <<>>, found |-> <<>>]

\* exception classes that are ValueError or a subclass of it
\* (pandas ParserError, EmptyDataError, UnicodeDecodeError)
IsValueError(e) == e.exc = "ValueError"

(* ------------------------------------------------------------------ *)
(* Uploaded bytes.  kind says what the bytes are: nothing ("empty"),   *)
(* bytes no reader can tokenize ("garbage"), a delimited text table    *)
(* ("csv"), a spreadsheet ("excel") or a PDF document ("pdf") with the *)
(* tables its pages hold, its page text, and whether table detection   *)
(* raises on it.                                                       *)
(* ------------------------------------------------------------------ *)

Body(k, h, rws, tbls, txt, rz) ==
    [kind |-> k, header |-> h, rows |-> rws, tables |-> tbls, text |-> txt, raises |-> rz]

EmptyBody      == Body("empty", <<>>, <<>>, <<>>, <<>>, FALSE)
GarbageBody    == Body("garbage", <<>>, <<>>, <<>>, <<>>, FALSE)
CsvBody(h, rws)   == Body("csv", h, rws, <<>>, <<>>, FALSE)
ExcelBody(h, rws) == Body("excel", h, rws, <<>>, <<>>, FALSE)
PdfBody(tbls, txt, rz) == Body("pdf", <<>>, <<>>, tbls, txt, rz)

\* len(content)
ContentLen(body) == IF body.kind = "empty" THEN 0 ELSE 1

(* ------------------------------------------------------------------ *)
(* utils/classifier.py: _parse_pdf_file                               *)
(* ------------------------------------------------------------------ *)

\* str.split('\n')
RECURSIVE SplitNewline(_)
SplitNewline(s) ==
    IF \A i \in 1..Len(s) : s[i] # "\n" THEN <<s>>
    ELSE LET k == CHOOSE i \in 1..Len(s) :
                      s[i] = "\n" /\ \A j \in 1..(i - 1) : s[j] # "\n"
         IN  <<SubSeq(s, 1, k - 1)>> \o SplitNewline(SubSeq(s, k + 1, Len(s)))

\* [line.strip() for line in text.split('\n') if line.strip()]
RECURSIVE StrippedNonEmpty(_)
StrippedNonEmpty(ls) ==
    IF ls = <<>> THEN <<>>
    ELSE IF Strip(Head(ls)) = <<>> THEN StrippedNonEmpty(Tail(ls))
    ELSE <<Strip(Head(ls))>> \o StrippedNonEmpty(Tail(ls))

\* length of the whitespace run s starts with
RECURSIVE RunLen(_)
RunLen(s) == IF s # <<>> /\ IsSpace(Head(s)) THEN 1 + RunLen(Tail(s)) ELSE 0

\* re.split(r'\s{2,}|\t', s), cur being the token read so far
RECURSIVE ReSplitFrom(_, _)
ReSplitFrom(s, cur) ==
    IF s = <<>> THEN <<cur>>
    ELSE IF RunLen(s) >= 2
         THEN <<cur>> \o ReSplitFrom(SubSeq(s, RunLen(s) + 1, Len(s)), <<>>)
    ELSE IF Head(s) = "\t"
         THEN <<cur>> \o ReSplitFrom(Tail(s), <<>>)
    ELSE ReSplitFrom(Tail(s), Append(cur, Head(s)))

ReSplit(s) == ReSplitFrom(s, <<>>)

\* the rows the fallback keeps: those with as many tokens as the header
RECURSIVE MatchingRows(_, _)
MatchingRows(ls, n) ==
    IF ls = <<>> THEN <<>>
    ELSE IF Len(ReSplit(Head(ls))) = n
         THEN <<ReSplit(Head(ls))>> \o MatchingRows(Tail(ls), n)
    ELSE MatchingRows(Tail(ls), n)

\* pd.DataFrame(rows, columns=header) of strings (None kept as NaN)
FrameOfStrings(header, rws) ==
    DataFrame(header, [j \in 1..Len(header) |-> "object"], rws)

\* tables with a header and at least one data row (table and len(table) > 1)
RECURSIVE UsableTables(_)
UsableTables(tbls) ==
    IF tbls = <<>> THEN <<>>
    ELSE IF Len(Head(tbls).rows) >= 1
         THEN <<Head(tbls)>> \o UsableTables(Tail(tbls))
    ELSE UsableTables(Tail(tbls))

\* columns of pd.concat: union of the headers, by first appearance
RECURSIVE UnionCols(_, _)
UnionCols(tbls, acc) ==
    IF tbls = <<>> THEN acc
    ELSE LET h == Head(tbls).header
             NewIn(c) == \A k \in 1..Len(acc) : acc[k] # c
         IN  UnionCols(Tail(tbls), acc \o SelectSeq(h, NewIn))

\* rows of pd.concat(...).fillna(''): a cell a table lacks, and a None cell,
\* become the empty string
RECURSIVE ConcatRows(_, _)
ConcatRows(tbls, cols) ==
    IF tbls = <<>> THEN <<>>
    ELSE LET t == Head(tbls)
             CellAt(row, c) ==
                 IF \E j \in 1..Len(t.header) : t.header[j] = c
                 THEN LET j == CHOOSE j \in 1..Len(t.header) : t.header[j] = c
                      IN  IF IsNaN(row[j]) THEN Txt(<<>>) ELSE row[j]
                 ELSE Txt(<<>>)
         IN  [i \in 1..Len(t.rows) |-> [k \in 1..Len(cols) |-> CellAt(t.rows[i], cols[k])]]
             \o ConcatRows(Tail(tbls), cols)

PdfResult(okv, d, e, fb) == [ok |-> okv, df |-> d, err |-> e, fallback |-> fb]

\* every failure of the fallback leaves as this ValueError
PdfFailure == PdfResult(FALSE, EmptyDF, Err("ValueError", "NoTabularDataFound"), TRUE)

\* the fallback without the check that some row matched
PdfFallbackDataNoCheck(header, data) ==
    PdfResult(TRUE,
        FrameOfStrings(header,
            [i \in 1..Len(data) |-> [j \in 1..Len(header) |-> Txt(data[i][j])]]),
        NoErr, TRUE)

\* the fallback, given the header tokens and the rows that match them
PdfFallbackData(header, data) ==
    IF data = <<>> THEN PdfFailure
    ELSE PdfResult(TRUE,
             FrameOfStrings(header,
                 [i \in 1..Len(data) |-> [j \in 1..Len(header) |-> Txt(data[i][j])]]),
             NoErr, TRUE)

\* the fallback taking its data rows from all lines, the header line included
PdfFallbackLinesWithHeader(body, lines) ==
    IF body.kind # "pdf" THEN PdfFailure
    ELSE IF Len(lines) < 2 THEN PdfFailure
    ELSE PdfFallbackData(ReSplit(lines[1]),
             MatchingRows(lines, Len(ReSplit(lines[1]))))

\* the fallback, given the non-empty stripped lines of the page text
PdfFallbackLines(body, lines) ==
    IF body.kind # "pdf" THEN PdfFailure
    ELSE IF Len(lines) < 2 THEN PdfFailure
    ELSE PdfFallbackData(ReSplit(lines[1]),
             MatchingRows(Tail(lines), Len(ReSplit(lines[1]))))

\* the text-line fallback (the except branch)
PdfFallback(body) == PdfFallbackLines(body, StrippedNonEmpty(SplitNewline(body.text)))

\* pd.concat(all_tables, ignore_index=True).fillna('')
PdfFrame(usable, cols) ==
    PdfResult(TRUE, FrameOfStrings(cols, ConcatRows(usable, cols)), NoErr, FALSE)

\* the structured pass falling back only when it found no table
ParsePdfTablesFallbackOnNoTable(body, usable) ==
    IF body.kind # "pdf" \/ body.raises
    THEN PdfResult(FALSE, EmptyDF, Err("ValueError", "NoTabularDataFound"), FALSE)
    ELSE IF usable = <<>> THEN PdfFallback(body)
    ELSE PdfFrame(usable, UnionCols(usable, <<>>))

\* the structured pass given the usable tables; any exception of it (the
\* bytes do not open as a PDF, table detection raises, no table found)
\* leads to the fallback
ParsePdfTables(body, usable) ==
    IF body.kind # "pdf" \/ body.raises \/ usable = <<>>
    THEN PdfFallback(body)
    ELSE PdfFrame(usable, UnionCols(usable, <<>>))

\* _parse_pdf_file
ParsePdfFile(body) == ParsePdfTables(body, UsableTables(body.tables))

(* ------------------------------------------------------------------ *)
(* utils/classifier.py: parse_csv_file                                *)
(* ------------------------------------------------------------------ *)

\* the optional import of pdfplumber succeeded (it is a declared dependency)
pdfplumber == TRUE

\* result of parse_csv_file: reader is the format-specific reader that was
\* handed the bytes ("none" when no reader ran), fallback whether the PDF
\* text fallback ran
ParseResult(okv, d, e, rd, fb) ==
    [ok |-> okv, df |-> d, err |-> e, reader |-> rd, fallback |-> fb]

\* pd.read_csv(io.BytesIO(file_content))
ReadCsv(body) ==
    IF body.kind = "csv"
    THEN ParseResult(TRUE, FrameOfCsv(body.header, body.rows), NoErr, "csv", FALSE)
    ELSE ParseResult(FALSE, EmptyDF, Err("ValueError", "MalformedFile"), "csv", FALSE)

\* pd.read_excel(io.BytesIO(file_content))
ReadExcel(body) ==
    IF body.kind = "excel"
    THEN ParseResult(TRUE, FrameOfExcel(body.header, body.rows), NoErr, "excel", FALSE)
    ELSE ParseResult(FALSE, EmptyDF, Err("ValueError", "MalformedFile"), "excel", FALSE)

FromPdf(r) == ParseResult(r.ok, r.df, r.err, "pdf", r.fallback)

ReadPdf(body) == FromPdf(ParsePdfFile(body))

\* the dispatch on filename_lower
Dispatch(body, filename_lower) ==
    IF EndsWith(filename_lower, extCsv) THEN ReadCsv(body)
    ELSE IF EndsWith(filename_lower, extXlsx) \/ EndsWith(filename_lower, extXls)
         THEN ReadExcel(body)
    ELSE IF EndsWith(filename_lower, extPdf)
         THEN IF ~pdfplumber
              THEN ParseResult(FALSE, EmptyDF,
                       Err("ValueError", "PdfSupportMissing"), "none", FALSE)
              ELSE ReadPdf(body)
    ELSE ParseResult(FALSE, EmptyDF, Err("ValueError", "UnsupportedFormat"),
             "none", FALSE)

\* the dispatch on the filename as given
ReadFileCaseSensitive(body, filename) == Dispatch(body, filename)

ReadFile(body, filename) == Dispatch(body, Lower(filename))

\* the header transform replacing the spaces before it trims
StandardizeNameReplaceFirst(c) == Strip(ReplaceSpaces(Lower(c)))

\* df.columns.str.lower().str.strip().str.replace(' ', '_')
StandardizeName(c) == ReplaceSpaces(Strip(Lower(c)))

\* df.rename(columns=column_mapping): each column on its own
RenameCol(c) ==
    IF \E k \in 1..Len(column_mapping) : column_mapping[k][1] = c
    THEN column_mapping[CHOOSE k \in 1..Len(column_mapping) : column_mapping[k][1] = c][2]
    ELSE c

required_cols == <<sName, sPhone>>

\* only the first required column that is absent
MissingColsFirst(cols) ==
    IF \A j \in 1..Len(cols) : cols[j] # sName THEN <<sName>>
    ELSE IF \A j \in 1..Len(cols) : cols[j] # sPhone THEN <<sPhone>>
    ELSE <<>>

\* [col for col in required_cols if col not in df.columns]
MissingCols(cols) ==
    LET Absent(c) == \A j \in 1..Len(cols) : cols[j] # c
    IN  SelectSeq(required_cols, Absent)

\* Series.astype(str) on one cell
AsTypeStr(c, dt) ==
    IF IsTxt(c) THEN c.s
    ELSE IF IsNaN(c) THEN sNan
    ELSE IF dt = "float" THEN IntToStr(c.n) \o sDotZero
    ELSE IntToStr(c.n)

\* the sanitization keeping nothing but digits
CleanPhoneDigitsOnly(s) == SelectSeq(s, IsDigit)

\* the sanitization with a pattern that lacks the whitespace class
CleanPhoneKeepSpaces(s) ==
    LET Keep(ch) == ch \notin {"-", "(", ")"}
    IN  SelectSeq(s, Keep)

\* str.replace(r'[\s\-\(\)]', '', regex=True)
CleanPhone(s) ==
    LET Keep(ch) == ~(IsSpace(ch) \/ ch \in {"-", "(", ")"})
    IN  SelectSeq(s, Keep)

\* df['phone'] = df['phone'].astype(str).str.replace(...), for the one phone column j
CleanPhoneCol(df, j) ==
    DataFrame(df.columns,
        [k \in 1..Len(df.columns) |-> IF k = j THEN "object" ELSE df.dtypes[k]],
        [i \in 1..Len(df.rows) |->
            [k \in 1..Len(df.columns) |->
                IF k = j THEN Txt(CleanPhone(AsTypeStr(df.rows[i][k], df.dtypes[k])))
                ELSE df.rows[i][k]]])

\* if c not in df.columns: df[c] = v
FillMissing(df, c, dt, v) == IF HasCol(df, c) THEN df ELSE AddConstCol(df, c, dt, v)

\* the "Fill missing values" block
FillDefaults(df) ==
    FillMissing(
      FillMissing(
        FillMissing(
          FillMissing(df, sEmail, "object", Txt(<<>>)),
          sTotalQuantity, "int", Num(0)),
        sPurchaseCount, "int", Num(1)),
      sOrderValue, "int", Num(0))

NormResult(okv, d, e) == [ok |-> okv, df |-> d, err |-> e]

\* validate the required columns, clean the phone column, fill the defaults
NormalizeChecked(renamed, missing) ==
    IF missing # <<>>
    THEN NormResult(FALSE, EmptyDF,
             [exc |-> "ValueError", kind |-> "MissingRequiredColumns",
              status |-> 0, missing |-> missing, found |-> renamed.columns])
    ELSE IF Cardinality(ColIdx(renamed, sPhone)) > 1
         \* df['phone'] is a DataFrame, which has no .str
         THEN NormResult(FALSE, EmptyDF, Err("AttributeError", "NoStrAccessor"))
    ELSE NormResult(TRUE,
             FillDefaults(CleanPhoneCol(renamed, LastIdx(renamed, sPhone))), NoErr)

NormalizeCols(df, cols) ==
    NormalizeChecked(DataFrame(cols, df.dtypes, df.rows), MissingCols(cols))

\* parse_csv_file after the read: standardize, rename, validate, clean, fill
Normalize(df) ==
    NormalizeCols(df,
        [j \in 1..Len(df.columns) |-> RenameCol(StandardizeName(df.columns[j]))])

WithReader(nz, rd) == ParseResult(nz.ok, nz.df, nz.err, rd.reader, rd.fallback)

NormalizeRead(rd) == IF ~rd.ok THEN rd ELSE WithReader(Normalize(rd.df), rd)

parse_csv_file(body, filename) == NormalizeRead(ReadFile(body, filename))

(* ------------------------------------------------------------------ *)
(* utils/classifier.py: classify_customers                            *)
(* ------------------------------------------------------------------ *)

\* thresholds of classify_row
BulkQuantityMin  == 50
BulkValueMin     == 5000
FrequentCountMin == 10

\* if c not in df.columns: df[c] = df.get(src, default)
EnsureMetric(df, c, src, default) ==
    IF HasCol(df, c) THEN df
    ELSE IF HasCol(df, src) THEN AddCopyCol(df, c, src)
    ELSE AddConstCol(df, c, "int", Num(default))

\* row.get(c, default) >= k.  "T"/"F": a truth value; "TypeError": a text cell
\* compared with a number; "Series": c names several columns, the comparison
\* yields a Series and not a truth value
Cmp(df, row, c, default, k) ==
    IF ~HasCol(df, c) THEN (IF default >= k THEN "T" ELSE "F")
    ELSE IF \E j \in ColIdx(df, c) : IsTxt(row[j]) THEN "TypeError"
    ELSE IF Cardinality(ColIdx(df, c)) > 1 THEN "Series"
    ELSE LET v == row[LastIdx(df, c)]
         IN  IF IsNum(v) /\ v.n >= k THEN "T" ELSE "F"

RowResult(okv, c, e) == [ok |-> okv, cat |-> c, err |-> e]

\* the branches of classify_row on the three comparisons q (quantity),
\* v (order value) and f (purchase count): "or" evaluates its right operand
\* only when the left one is false, and returns it as it is; "if" takes the
\* truth value of its condition, which a Series does not have (ValueError)
Decide(q, v, f) ==
    LET is_bulk == IF q = "T" THEN "T" ELSE v
        Ambiguous == RowResult(FALSE, "none", Err("ValueError", "AmbiguousTruthValue"))
        Unordered == RowResult(FALSE, "none", Err("TypeError", "NotComparable"))
    IN  IF q = "TypeError" THEN Unordered
        ELSE IF q = "Series" THEN Ambiguous
        ELSE IF is_bulk = "TypeError" THEN Unordered
        ELSE IF f = "TypeError" THEN Unordered
        ELSE IF is_bulk = "Series" THEN Ambiguous
        ELSE IF f = "Series" THEN Ambiguous
        ELSE IF is_bulk = "T" /\ f = "T" THEN RowResult(TRUE, "both", NoErr)
        ELSE IF is_bulk = "T" THEN RowResult(TRUE, "bulk_buyer", NoErr)
        ELSE IF f = "T" THEN RowResult(TRUE, "frequent_customer", NoErr)
        ELSE RowResult(TRUE, "regular", NoErr)

\* classify_row with strict comparisons
classify_row_strict(df, row) ==
    Decide(Cmp(df, row, sTotalQuantity, 0, BulkQuantityMin + 1),
           Cmp(df, row, sOrderValue, 0, BulkValueMin + 1),
           Cmp(df, row, sPurchaseCount, 0, FrequentCountMin + 1))

classify_row(df, row) ==
    Decide(Cmp(df, row, sTotalQuantity, 0, BulkQuantityMin),
           Cmp(df, row, sOrderValue, 0, BulkValueMin),
           Cmp(df, row, sPurchaseCount, 0, FrequentCountMin))

\* df['category'] = values: replaces the category column or appends one
SetCategory(df, cats) ==
    IF HasCol(df, sCategory)
    THEN DataFrame(df.columns,
             [k \in 1..Len(df.columns) |->
                 IF k = LastIdx(df, sCategory) THEN "object" ELSE df.dtypes[k]],
             [i \in 1..Len(df.rows) |->
                 [k \in 1..Len(df.columns) |->
                     IF k = LastIdx(df, sCategory) THEN cats[i] ELSE df.rows[i][k]]])
    ELSE DataFrame(Append(df.columns, sCategory), Append(df.dtypes, "object"),
             [i \in 1..Len(df.rows) |-> Append(df.rows[i], cats[i])])

\* counts with an entry for every category of the enumeration
ValueCountsAll(cats) ==
    [c \in CustomerCategory |-> Cardinality({i \in 1..Len(cats) : cats[i] = c})]

\* counts that record a category once, however many rows have it
ValueCountsOnce(cats) == [c \in {cats[i] : i \in 1..Len(cats)} |-> 1]

\* df['category'].value_counts().to_dict(): the categories that occur, each
\* with the number of rows that have it
ValueCounts(cats) ==
    [c \in {cats[i] : i \in 1..Len(cats)} |->
        Cardinality({i \in 1..Len(cats) : cats[i] = c})]

ClassifyResult(okv, d, cl, e) ==
    [ok |-> okv, df |-> d, classifications |-> cl, err |-> e]

\* the outcome of df.apply(classify_row, axis=1) and of the counting, res
\* being the result of classify_row per row and bad the rows where it raised
ClassifyOutcome(df, res, bad) ==
    IF bad # {}
    THEN ClassifyResult(FALSE, EmptyDF, ValueCounts(<<>>),
             res[CHOOSE i \in bad : \A k \in bad : i <= k].err)
    ELSE ClassifyResult(TRUE,
             SetCategory(df, [i \in 1..Len(res) |-> Txt(<<res[i].cat>>)]),
             ValueCounts([i \in 1..Len(res) |-> res[i].cat]), NoErr)

ClassifyRows(df, res) == ClassifyOutcome(df, res, {i \in 1..Len(res) : ~res[i].ok})

\* DataFrame.apply on a frame without rows calls classify_row once on a row
\* of NaN to learn the result shape; when that raises, apply returns a frame,
\* and a frame cannot be set as one column
ClassifyNoRows(df, probe) ==
    IF probe.ok
    THEN ClassifyResult(TRUE, SetCategory(df, <<>>), ValueCounts(<<>>), NoErr)
    ELSE ClassifyResult(FALSE, EmptyDF, ValueCounts(<<>>),
             Err("ValueError", "FrameAsColumn"))

\* classify_customers once the three metric columns exist
ClassifyFrame(df) ==
    IF df.rows = <<>>
    THEN ClassifyNoRows(df, classify_row(df, [j \in 1..Len(df.columns) |-> NaN]))
    ELSE ClassifyRows(df, [i \in 1..Len(df.rows) |-> classify_row(df, df.rows[i])])

classify_customers(df0) ==
    ClassifyFrame(
        EnsureMetric(
          EnsureMetric(
            EnsureMetric(df0, sTotalQuantity, sQuantity, 0),
            sPurchaseCount, sOrders, 1),
          sOrderValue, sAmount, 0))

(* ------------------------------------------------------------------ *)
(* services/customer_service.py: CustomerService.upload_customers,    *)
(* document construction                                              *)
(* ------------------------------------------------------------------ *)

\* the keys the auxiliary map never takes
StandardFields ==
    {sName, sPhone, sEmail, sCategory, sTotalQuantity, sPurchaseCount, sOrderValue}

\* customer_data.get(c, default) with customer_data = row.to_dict()
RowGet(df, row, c, default) == IF HasCol(df, c) THEN row[LastIdx(df, c)] ELSE default

\* dtype of the column customer_data[c] comes from
RowDtype(df, c) == IF HasCol(df, c) THEN df.dtypes[LastIdx(df, c)] ELSE "object"

\* str(value).strip()
StrStrip(c, dt) == Strip(AsTypeStr(c, dt))

\* float(value): a number, NaN (also from the text "nan"), or ValueError
CanFloat(c) == ~IsTxt(c) \/ IsNumeric(c.s) \/ Lower(Strip(c.s)) = sNan
ToFloat(c) ==
    IF IsTxt(c) THEN (IF IsNumeric(c.s) THEN Num(StrToInt(c.s)) ELSE NaN) ELSE c

\* int(value): ValueError on NaN and on text that is no integer
CanInt(c) == IsNum(c) \/ (IsTxt(c) /\ IsNumeric(c.s))
ToInt(c) == IF IsTxt(c) THEN StrToInt(c.s) ELSE c.n

\* the keys of row.to_dict(), in column order
RECURSIVE DistinctCols(_, _)
DistinctCols(cols, acc) ==
    IF cols = <<>> THEN acc
    ELSE IF \E k \in 1..Len(acc) : acc[k] = Head(cols)
         THEN DistinctCols(Tail(cols), acc)
    ELSE DistinctCols(Tail(cols), Append(acc, Head(cols)))

\* additional_fields without the test for an absent value
AdditionalFieldsKeepAbsent(df, row) ==
    LET keys == DistinctCols(df.columns, <<>>)
        Extra(k) == k \notin StandardFields
        kept == SelectSeq(keys, Extra)
    IN  [i \in 1..Len(kept) |-> [key |-> kept[i], value |-> row[LastIdx(df, kept[i])]]]

\* additional_fields: the columns outside StandardFields whose value is not absent
AdditionalFields(df, row) ==
    LET keys == DistinctCols(df.columns, <<>>)
        Extra(k) == k \notin StandardFields /\ ~IsNaN(row[LastIdx(df, k)])
        kept == SelectSeq(keys, Extra)
    IN  [i \in 1..Len(kept) |-> [key |-> kept[i], value |-> row[LastIdx(df, kept[i])]]]

\* no file reference was handed over (file_url / file_id is None)
NoRef == 0

\* column names an uploaded table may use that are also keys of customer_doc
hId           == <<"i","d">>
hUserId       == <<"u","s","e","r","_","i","d">>
hUploadedAt   == <<"u","p","l","o","a","d","e","d","_","a","t">>
hSourceFile   == <<"s","o","u","r","c","e","_","f","i","l","e">>
hFileUrl      == <<"f","i","l","e","_","u","r","l">>
hFileId       == <<"f","i","l","e","_","i","d">>
hCustomFields == <<"c","u","s","t","o","m","_","f","i","e","l","d","s">>

\* customer_doc with the phone of the row as the identifier
CustomerDocIdFromPhone(df, row, id, user_id, now, filename, file_url, file_id) ==
    [id             |-> StrStrip(RowGet(df, row, sPhone, Txt(<<>>)), RowDtype(df, sPhone)),
     user_id        |-> user_id,
     name           |-> StrStrip(RowGet(df, row, sName, Txt(<<>>)), RowDtype(df, sName)),
     phone          |-> StrStrip(RowGet(df, row, sPhone, Txt(<<>>)), RowDtype(df, sPhone)),
     email          |-> StrStrip(RowGet(df, row, sEmail, Txt(<<>>)), RowDtype(df, sEmail)),
     category       |-> RowGet(df, row, sCategory, Txt(<<"regular">>)).s[1],
     total_quantity |-> ToFloat(RowGet(df, row, sTotalQuantity, Num(0))),
     purchase_count |-> ToInt(RowGet(df, row, sPurchaseCount, Num(1))),
     order_value    |-> ToFloat(RowGet(df, row, sOrderValue, Num(0))),
     uploaded_at    |-> now,
     source_file    |-> filename,
     file_url       |-> file_url,
     file_id        |-> file_id,
     custom_fields  |-> AdditionalFields(df, row)]

\* customer_doc taking source_file from a column of that name when the row has one
CustomerDocSourceFromRow(df, row, id, user_id, now, filename, file_url, file_id) ==
    [id             |-> id,
     user_id        |-> user_id,
     name           |-> StrStrip(RowGet(df, row, sName, Txt(<<>>)), RowDtype(df, sName)),
     phone          |-> StrStrip(RowGet(df, row, sPhone, Txt(<<>>)), RowDtype(df, sPhone)),
     email          |-> StrStrip(RowGet(df, row, sEmail, Txt(<<>>)), RowDtype(df, sEmail)),
     category       |-> RowGet(df, row, sCategory, Txt(<<"regular">>)).s[1],
     total_quantity |-> ToFloat(RowGet(df, row, sTotalQuantity, Num(0))),
     purchase_count |-> ToInt(RowGet(df, row, sPurchaseCount, Num(1))),
     order_value    |-> ToFloat(RowGet(df, row, sOrderValue, Num(0))),
     uploaded_at    |-> now,
     source_file    |-> IF IsTxt(RowGet(df, row, hSourceFile, NaN))
                        THEN RowGet(df, row, hSourceFile, NaN).s ELSE filename,
     file_url       |-> file_url,
     file_id        |-> file_id,
     custom_fields  |-> AdditionalFields(df, row)]

\* customer_doc of one row; file_url, file_id and custom_fields are keys of the
\* document only when they are not NoRef / not empty
CustomerDoc(df, row, id, user_id, now, filename, file_url, file_id) ==
    [id             |-> id,
     user_id        |-> user_id,
     name           |-> StrStrip(RowGet(df, row, sName, Txt(<<>>)), RowDtype(df, sName)),
     phone          |-> StrStrip(RowGet(df, row, sPhone, Txt(<<>>)), RowDtype(df, sPhone)),
     email          |-> StrStrip(RowGet(df, row, sEmail, Txt(<<>>)), RowDtype(df, sEmail)),
     category       |-> RowGet(df, row, sCategory, Txt(<<"regular">>)).s[1],
     total_quantity |-> ToFloat(RowGet(df, row, sTotalQuantity, Num(0))),
     purchase_count |-> ToInt(RowGet(df, row, sPurchaseCount, Num(1))),
     order_value    |-> ToFloat(RowGet(df, row, sOrderValue, Num(0))),
     uploaded_at    |-> now,
     source_file    |-> filename,
     file_url       |-> file_url,
     file_id        |-> file_id,
     custom_fields  |-> AdditionalFields(df, row)]

\* the row can be converted: float()/int() raise ValueError otherwise
RowConvertible(df, row) ==
    /\ CanFloat(RowGet(df, row, sTotalQuantity, Num(0)))
    /\ CanInt(RowGet(df, row, sPurchaseCount, Num(1)))
    /\ CanFloat(RowGet(df, row, sOrderValue, Num(0)))

BuildResult(okv, ds, cl, d, e, rd, fb) ==
    [ok |-> okv, docs |-> ds, classifications |-> cl, df |-> d, err |-> e,
     reader |-> rd, fallback |-> fb]

\* the documents of a classified frame; document i gets identifier firstId + i
BuildClassified(p, c, filename, user_id, file_url, file_id, firstId, now) ==
    IF ~c.ok
    THEN BuildResult(FALSE, <<>>, <<>>, p.df, c.err, p.reader, p.fallback)
    ELSE IF \E i \in 1..Len(c.df.rows) : ~RowConvertible(c.df, c.df.rows[i])
         THEN BuildResult(FALSE, <<>>, <<>>, p.df,
                  Err("ValueError", "NotANumber"), p.reader, p.fallback)
    ELSE BuildResult(TRUE,
             [i \in 1..Len(c.df.rows) |->
                 CustomerDoc(c.df, c.df.rows[i], firstId + i, user_id, now,
                             filename, file_url, file_id)],
             c.classifications, p.df, NoErr, p.reader, p.fallback)

BuildParsed(p, filename, user_id, file_url, file_id, firstId, now) ==
    IF ~p.ok
    THEN BuildResult(FALSE, <<>>, <<>>, EmptyDF, p.err, p.reader, p.fallback)
    ELSE BuildClassified(p, classify_customers(p.df), filename, user_id,
             file_url, file_id, firstId, now)

\* upload_customers up to the insert: parse, classify, build the documents
BuildCustomers(body, filename, user_id, file_url, file_id, firstId, now) ==
    BuildParsed(parse_csv_file(body, filename), filename, user_id,
        file_url, file_id, firstId, now)

(* ------------------------------------------------------------------ *)
(* State                                                              *)
(* ------------------------------------------------------------------ *)

Requests == {1, 2}
Users    == {"u1", "u2"}

VARIABLES
    customers,   \* db.customers: sequence of [oid, doc], oid the storage-assigned _id
    files,       \* db.files: sequence of file metadata records
    bucket,      \* the objects held by the cloud storage bucket
    nextId,      \* identifiers (uuid4, object names, ObjectIds) handed out so far
    now,         \* the clock
    pc,          \* pc[r]: where request r is
    req,         \* req[r]: user, filename and body of the request
    snap,        \* snap[r]: the persistent state when request r arrived
    meta,        \* meta[r]: file_metadata returned by file_service.upload_file
    work,        \* work[r]: what upload_customers has computed so far
    resp,        \* resp[r]: the outcome the caller sees
    call,        \* the latest list or clear call: its caller, what it returned
                 \* and db.customers as the call found it
    users,       \* db.users: sequence of user documents
    otps,        \* db.otps: sequence of one-time-code documents
    mailUp,      \* whether send_otp_email gets its message out
    proc,        \* proc[p]: the authentication call client p has in flight
    hist         \* what happened so far: the codes issued, the verifications
                 \* that returned true, the password changes, the calls begun

vars == <<customers, files, bucket, nextId, now, pc, req, snap, meta, work, resp,
          call, users, otps, mailUp, proc, hist>>

\* what the authentication routes leave alone
uploadVars == <<customers, files, bucket, pc, req, snap, meta, work, resp, call>>

NoReq   == [user_id |-> "none", filename |-> <<>>, body |-> EmptyBody]
NoSnap  == [customers |-> <<>>, files |-> <<>>, bucket |-> <<>>]
NoMeta  == [file_url |-> NoRef, file_id |-> NoRef]
NoWork  == BuildResult(FALSE, <<>>, <<>>, EmptyDF, NoErr, "none", FALSE)
NoResp  == [status |-> 0, err |-> NoErr, total_customers |-> 0,
            classifications |-> <<>>, customers |-> <<>>]

\* a request that ended in an exception the endpoint turned into a status
Failure(status, e) ==
    [status |-> status, err |-> e, total_customers |-> 0,
     classifications |-> <<>>, customers |-> <<>>]

\* CustomerUploadResponse(**result)
Success(docs, cl) ==
    [status |-> 200, err |-> NoErr, total_customers |-> Len(docs),
     classifications |-> cl, customers |-> docs]

(* ------------------------------------------------------------------ *)
(* routes/customers.py: upload_customers                              *)
(* ------------------------------------------------------------------ *)

allowed_extensions == {extCsv, extXlsx, extXls, extPdf}

\* '.' + file.filename.rsplit('.', 1)[-1].lower()
FileExt(filename) == <<".">> \o Lower(AfterLastDot(filename))

\* the except clauses of the endpoint: ValueError becomes 400, every other
\* exception raised inside the try block, HTTPException included, becomes 500
Handle(e) == IF IsValueError(e) THEN Failure(400, e) ELSE Failure(500, e)

\* the checks of the endpoint without the one on the length of the content
PrecheckExtensionOnly(filename, body) ==
    IF FileExt(filename) \notin allowed_extensions THEN HttpErr(400, "UnsupportedFormat")
    ELSE NoErr

\* what the endpoint raises before it stores or parses anything
Precheck(filename, body) ==
    IF FileExt(filename) \notin allowed_extensions THEN HttpErr(400, "UnsupportedFormat")
    ELSE IF ContentLen(body) = 0 THEN HttpErr(400, "EmptyFile")
    ELSE NoErr

\* the endpoint up to "await file.read()" and the two checks
Receive(r, u, filename, body) ==
    /\ pc[r] = "idle"
    /\ req' = [req EXCEPT ![r] = [user_id |-> u, filename |-> filename, body |-> body]]
    /\ snap' = [snap EXCEPT ![r] =
                  [customers |-> customers, files |-> files, bucket |-> bucket]]
    /\ LET e == Precheck(filename, body)
       IN  IF e = NoErr
           THEN /\ pc' = [pc EXCEPT ![r] = "store"]
                /\ resp' = resp
           ELSE /\ pc' = [pc EXCEPT ![r] = "done"]
                /\ resp' = [resp EXCEPT ![r] = Handle(e)]
    /\ UNCHANGED <<customers, files, bucket, nextId, now, meta, work>>
    /\ UNCHANGED <<call, users, otps, mailUp, proc, hist>>

(* ------------------------------------------------------------------ *)
(* services/file_service.py: FileUploadService.upload_file            *)
(* ------------------------------------------------------------------ *)

\* upload_file succeeds: the bytes go to the bucket under a fresh object name,
\* the metadata record goes to db.files, and the URL and record id come back
StoreFileOk(r) ==
    /\ pc[r] = "store"
    /\ LET key == nextId + 1
           fid == nextId + 2
       IN  /\ bucket' = Append(bucket,
                  [file_name |-> key, user_id |-> req[r].user_id,
                   original_filename |-> req[r].filename])
           /\ files' = Append(files,
                  [oid |-> fid, user_id |-> req[r].user_id, file_name |-> key,
                   original_file_name |-> req[r].filename, file_url |-> key])
           /\ meta' = [meta EXCEPT ![r] = [file_url |-> key, file_id |-> fid]]
           /\ nextId' = nextId + 2
    /\ pc' = [pc EXCEPT ![r] = "process"]
    /\ UNCHANGED <<customers, now, req, snap, work, resp>>
    /\ UNCHANGED <<call, users, otps, mailUp, proc, hist>>

\* bucket.upload_bytes raises: upload_file turns it into HTTPException(500)
StoreFileBucketFails(r) ==
    /\ pc[r] = "store"
    /\ pc' = [pc EXCEPT ![r] = "done"]
    /\ resp' = [resp EXCEPT ![r] = Handle(HttpErr(500, "UploadFailed"))]
    /\ UNCHANGED <<customers, files, bucket, nextId, now, req, snap, meta, work>>
    /\ UNCHANGED <<call, users, otps, mailUp, proc, hist>>

\* db.files.insert_one raises after the bytes were stored
StoreFileInsertFails(r) ==
    /\ pc[r] = "store"
    /\ bucket' = Append(bucket,
           [file_name |-> nextId + 1, user_id |-> req[r].user_id,
            original_filename |-> req[r].filename])
    /\ nextId' = nextId + 1
    /\ pc' = [pc EXCEPT ![r] = "done"]
    /\ resp' = [resp EXCEPT ![r] = Handle(HttpErr(500, "UploadFailed"))]
    /\ UNCHANGED <<customers, files, now, req, snap, meta, work>>
    /\ UNCHANGED <<call, users, otps, mailUp, proc, hist>>

(* ------------------------------------------------------------------ *)
(* CustomerService.upload_customers as called by the endpoint         *)
(* ------------------------------------------------------------------ *)

\* documents as the collection stores them, each with a fresh _id
Stored(docs, firstOid) == [i \in 1..Len(docs) |-> [oid |-> firstOid + i, doc |-> docs[i]]]

\* customers_response: the documents without '_id'
WithoutOid(stored) == [i \in 1..Len(stored) |-> stored[i].doc]

\* Processed writing each document to db.customers as soon as it is built
ProcessedWritingRows(r, b) ==
    /\ work' = [work EXCEPT ![r] = b]
    /\ nextId' = nextId + Len(b.docs)
    /\ customers' = customers \o Stored(b.docs, nextId)
    /\ IF ~b.ok
       THEN /\ pc' = [pc EXCEPT ![r] = "done"]
            /\ resp' = [resp EXCEPT ![r] = Handle(b.err)]
       ELSE IF b.docs = <<>>
       THEN /\ pc' = [pc EXCEPT ![r] = "done"]
            /\ resp' = [resp EXCEPT ![r] = Success(<<>>, b.classifications)]
       ELSE /\ pc' = [pc EXCEPT ![r] = "insert"]
            /\ resp' = resp

\* Processed calling insert_many also when there is no document
ProcessedAlwaysInserting(r, b) ==
    /\ work' = [work EXCEPT ![r] = b]
    /\ nextId' = nextId + Len(b.docs)
    /\ customers' = customers
    /\ IF ~b.ok
       THEN /\ pc' = [pc EXCEPT ![r] = "done"]
            /\ resp' = [resp EXCEPT ![r] = Handle(b.err)]
       ELSE /\ pc' = [pc EXCEPT ![r] = "insert"]
            /\ resp' = resp

\* the endpoint's reaction to what upload_customers computed before the
\* insert; nothing is written to db.customers here
Processed(r, b) ==
    /\ work' = [work EXCEPT ![r] = b]
    /\ nextId' = nextId + Len(b.docs)
    /\ customers' = customers
    /\ IF ~b.ok
       THEN /\ pc' = [pc EXCEPT ![r] = "done"]
            /\ resp' = [resp EXCEPT ![r] = Handle(b.err)]
       ELSE IF b.docs = <<>>
       THEN /\ pc' = [pc EXCEPT ![r] = "done"]
            /\ resp' = [resp EXCEPT ![r] = Success(<<>>, b.classifications)]
       ELSE /\ pc' = [pc EXCEPT ![r] = "insert"]
            /\ resp' = resp

\* Process reading the upload from one place shared by all requests
ProcessSharedUpload(r) ==
    /\ pc[r] = "process"
    /\ Processed(r, BuildCustomers(req[1].body, req[1].filename, req[1].user_id,
                        meta[1].file_url, meta[1].file_id, nextId, now))
    /\ now' = now + 1
    /\ UNCHANGED <<files, bucket, req, snap, meta>>
    /\ UNCHANGED <<call, users, otps, mailUp, proc, hist>>

\* parse, classify and build, up to "await self.db.customers.insert_many"
Process(r) ==
    /\ pc[r] = "process"
    /\ Processed(r, BuildCustomers(req[r].body, req[r].filename, req[r].user_id,
                        meta[r].file_url, meta[r].file_id, nextId, now))
    /\ now' = now + 1
    /\ UNCHANGED <<files, bucket, req, snap, meta>>
    /\ UNCHANGED <<call, users, otps, mailUp, proc, hist>>

\* insert_many succeeds; the response is built from the inserted documents
InsertOk(r) ==
    /\ pc[r] = "insert"
    /\ LET st == Stored(work[r].docs, nextId)
       IN  /\ customers' = customers \o st
           /\ resp' = [resp EXCEPT ![r] = Success(WithoutOid(st), work[r].classifications)]
    /\ nextId' = nextId + Len(work[r].docs)
    /\ pc' = [pc EXCEPT ![r] = "done"]
    /\ UNCHANGED <<files, bucket, now, req, snap, meta, work>>
    /\ UNCHANGED <<call, users, otps, mailUp, proc, hist>>

\* insert_many raises after the first k documents were written (an ordered
\* bulk write stops at the first document that fails)
InsertFails(r, k) ==
    /\ pc[r] = "insert"
    /\ k \in 0..(Len(work[r].docs) - 1)
    /\ customers' = customers \o SubSeq(Stored(work[r].docs, nextId), 1, k)
    /\ nextId' = nextId + k
    /\ pc' = [pc EXCEPT ![r] = "done"]
    /\ resp' = [resp EXCEPT ![r] = Handle(Err("BulkWriteError", "InsertFailed"))]
    /\ UNCHANGED <<files, bucket, now, req, snap, meta, work>>
    /\ UNCHANGED <<call, users, otps, mailUp, proc, hist>>

(* ------------------------------------------------------------------ *)
(* CustomerService.list_customers and clear_customers, each one call  *)
(* to the collection                                                   *)
(* ------------------------------------------------------------------ *)

\* to_list(1000): the most documents one list call fetches
ListLimit == 1000

NoCall ==
    [op |-> "none", user_id |-> "none", customers |-> <<>>, total |-> 0,
     deleted_count |-> 0, before |-> <<>>]

\* find({"user_id": user_id}) / the filter of delete_many: the stored
\* documents of the user, in stored order
Find(coll, user_id) == SelectSeq(coll, LAMBDA s : s.doc.user_id = user_id)

\* the stored documents the filter does not match
FindOthers(coll, user_id) == SelectSeq(coll, LAMBDA s : s.doc.user_id # user_id)

Reversed(s) == [i \in 1..Len(s) |-> s[Len(s) + 1 - i]]

GreatestOf(S) == CHOOSE k \in S : \A j \in S : j <= k

\* the documents whose uploaded_at is in keys, greatest uploaded_at first
RECURSIVE SortByKeys(_, _, _)
SortByKeys(stored, keys, rev) ==
    IF keys = {} THEN <<>>
    ELSE LET k   == GreatestOf(keys)
             grp == SelectSeq(stored, LAMBDA s : s.doc.uploaded_at = k)
         IN  (IF rev THEN Reversed(grp) ELSE grp)
                 \o SortByKeys(stored, keys \ {k}, rev)

\* sort("uploaded_at", -1); the order among documents with the same
\* uploaded_at is not specified: stored order, or its reverse when rev
SortDesc(stored, rev) ==
    SortByKeys(stored, {stored[i].doc.uploaded_at : i \in 1..Len(stored)}, rev)

\* to_list(n): at most the first n documents of the cursor
ToList(s, n) == IF Len(s) <= n THEN s ELSE SubSeq(s, 1, n)

\* the documents list_customers returns, '_id' projected away
ListResult(coll, user_id, rev) ==
    ToList(WithoutOid(SortDesc(Find(coll, user_id), rev)), ListLimit)

\* {"customers": customers, "total": len(customers)}
Listed(u, result) ==
    call' = [op |-> "list", user_id |-> u, customers |-> result,
             total |-> Len(result), deleted_count |-> 0, before |-> customers]

\* GET /customers/list
ListCustomers(u, rev) ==
    /\ Listed(u, ListResult(customers, u, rev))
    /\ UNCHANGED <<customers, files, bucket, nextId, now, pc, req, snap, meta,
                   work, resp, users, otps, mailUp, proc, hist>>

\* delete_many with no filter on the user
ClearCustomersEveryUser(u) ==
    /\ customers' = <<>>
    /\ call' = [op |-> "clear", user_id |-> u, customers |-> <<>>, total |-> 0,
                deleted_count |-> Len(customers), before |-> customers]
    /\ UNCHANGED <<files, bucket, nextId, now, pc, req, snap, meta, work, resp,
                   users, otps, mailUp, proc, hist>>

\* DELETE /customers/clear: delete_many({"user_id": user_id}) and its
\* deleted_count
ClearCustomers(u) ==
    /\ customers' = FindOthers(customers, u)
    /\ call' = [op |-> "clear", user_id |-> u, customers |-> <<>>, total |-> 0,
                deleted_count |-> Len(Find(customers, u)), before |-> customers]
    /\ UNCHANGED <<files, bucket, nextId, now, pc, req, snap, meta, work, resp,
                   users, otps, mailUp, proc, hist>>

(* ------------------------------------------------------------------ *)
(* services/auth_service.py and routes/auth.py                        *)
(* ------------------------------------------------------------------ *)

Clients   == {1, 2}
Codes     == {"111111", "222222"}

\* the address people sign up with, and one nobody signs up with
Emails    == {"a@x.io", "b@x.io"}
SignupEmail == "a@x.io"

\* the password each client types
PasswordOf(p) == IF p = 1 THEN "pw1" ELSE "pw2"

\* timedelta(minutes=10): how long a code stays valid, in minutes
OtpMinutes == 10

\* most calls the clients begin, most times the clock moves on
MaxCalls == 3
MaxTicks == 2

NoOtp ==
    [oid |-> 0, email |-> "", otp |-> "", purpose |-> "", expires_at |-> 0,
     created_at |-> 0, verified |-> FALSE, issue |-> 0]

NoAuthResp == [status |-> 0, message |-> ""]

NoProc ==
    [pc |-> "idle", op |-> "none", email |-> "", otp |-> "", password |-> "",
     otp_doc |-> NoOtp, verified_otp |-> FALSE, user |-> FALSE, resp |-> NoAuthResp]

NoHist == [log |-> <<>>, wins |-> <<>>, changes |-> <<>>, calls |-> 0]

\* nobody has registered, asked for a code or called yet
AuthIdle ==
    /\ users = <<>>
    /\ otps = <<>>
    /\ mailUp = TRUE
    /\ proc = [p \in Clients |-> NoProc]
    /\ hist = NoHist

\* get_password_hash
Hash(password) == <<"hash", password>>

\* find_one on db.users by email
HasUser(coll, email) == \E i \in 1..Len(coll) : coll[i].email = email

\* find_one / update_one act on the first document the filter matches: the
\* least of the positions in hits, 0 when no document matches
FirstMatch(hits) ==
    IF hits = {} THEN 0 ELSE CHOOSE i \in hits : \A j \in hits : i <= j

\* the purpose the calls of an operation pass to create_otp and verify_otp
PurposeOf(op) == IF op \in {"forgot", "reset"} THEN "reset_password" ELSE "signup"

\* the document create_otp writes; issue numbers the codes in the order
\* they were generated
OtpDoc(oid, email, purpose, code, t, issue) ==
    [oid |-> oid, email |-> email, otp |-> code, purpose |-> purpose,
     expires_at |-> t + OtpMinutes, created_at |-> t, verified |-> FALSE,
     issue |-> issue]

\* update_one({"email", "purpose"}, {"$set": ...}, upsert=True)
Upsert(coll, k, email, purpose, code, t, issue, oid) ==
    IF k = 0 THEN Append(coll, OtpDoc(oid, email, purpose, code, t, issue))
    ELSE [coll EXCEPT ![k] = OtpDoc(coll[k].oid, email, purpose, code, t, issue)]

\* create_otp: a generated code replaces the one stored for (email, purpose)
CreateOtp(p, code) ==
    /\ otps' = Upsert(otps,
                   FirstMatch({i \in 1..Len(otps) :
                                  /\ otps[i].email = proc[p].email
                                  /\ otps[i].purpose = PurposeOf(proc[p].op)}),
                   proc[p].email, PurposeOf(proc[p].op), code, now,
                   Len(hist.log) + 1, nextId + 1)
    /\ nextId' = nextId + 1
    /\ hist' = [hist EXCEPT !.log = Append(@,
                   [email |-> proc[p].email, purpose |-> PurposeOf(proc[p].op),
                    otp |-> code, at |-> now])]

\* the call of client p ends with this response
Respond(p, status, message) ==
    [proc EXCEPT ![p].pc = "done", ![p].resp = [status |-> status, message |-> message]]

\* a client sends a request: op is the route, the rest the request body
Begin(p, op, email, code, password) ==
    /\ proc[p].pc \in {"idle", "done"}
    /\ hist.calls < MaxCalls
    /\ proc' = [proc EXCEPT ![p] =
                  [NoProc EXCEPT !.pc = op, !.op = op, !.email = email,
                                 !.otp = code, !.password = password]]
    /\ hist' = [hist EXCEPT !.calls = @ + 1]
    /\ UNCHANGED <<users, otps, mailUp, nextId, now>>
    /\ UNCHANGED uploadVars

\* the clock moves on by the lifetime of a code
Tick ==
    /\ now + OtpMinutes <= 1 + MaxTicks * OtpMinutes
    /\ now' = now + OtpMinutes
    /\ UNCHANGED <<users, otps, mailUp, proc, hist, nextId>>
    /\ UNCHANGED uploadVars

\* POST /auth/send-otp up to the answer of db.users.find_one
SendOtpFindUser(p) ==
    /\ proc[p].pc = "send_otp"
    /\ IF \E i \in 1..Len(users) :
              users[i].email = proc[p].email /\ users[i].email_verified
       THEN proc' = Respond(p, 400, "Email already registered and verified")
       ELSE proc' = [proc EXCEPT ![p].pc = "send_otp_create"]
    /\ UNCHANGED <<users, otps, mailUp, hist, nextId, now>>
    /\ UNCHANGED uploadVars

\* POST /auth/send-otp: create_otp, then send_otp_email
SendOtpCreate(p, code) ==
    /\ proc[p].pc = "send_otp_create"
    /\ CreateOtp(p, code)
    /\ IF mailUp
       THEN proc' = Respond(p, 200, "OTP sent successfully")
       ELSE proc' = Respond(p, 500, "Failed to send OTP email")
    /\ UNCHANGED <<users, mailUp, now>>
    /\ UNCHANGED uploadVars

\* POST /auth/forgot-password up to the answer of db.users.find_one
ForgotFindUser(p) ==
    /\ proc[p].pc = "forgot"
    /\ IF ~HasUser(users, proc[p].email)
       THEN proc' = Respond(p, 200, "If the email exists, a reset code has been sent")
       ELSE proc' = [proc EXCEPT ![p].pc = "forgot_create", ![p].user = TRUE]
    /\ UNCHANGED <<users, otps, mailUp, hist, nextId, now>>
    /\ UNCHANGED uploadVars

\* POST /auth/forgot-password: create_otp, then send_otp_email
ForgotCreate(p, code) ==
    /\ proc[p].pc = "forgot_create"
    /\ CreateOtp(p, code)
    /\ IF mailUp
       THEN proc' = Respond(p, 200, "If the email exists, a reset code has been sent")
       ELSE proc' = Respond(p, 500, "Failed to send reset code")
    /\ UNCHANGED <<users, mailUp, now>>
    /\ UNCHANGED uploadVars

\* the filter without the test on 'verified'
VerifyFilterAnyState(d, email, code, purpose) ==
    d.email = email /\ d.otp = code /\ d.purpose = purpose

\* the filter of the find_one in verify_otp
VerifyFilter(d, email, code, purpose) ==
    d.email = email /\ d.otp = code /\ d.purpose = purpose /\ ~d.verified

\* what the route answers when verify_otp returns False
VerifyRefused(p) ==
    Respond(p, 400, "Invalid or expired OTP")

\* verify_otp up to the update: find_one with the filter, then the expiry test
Verified(p, k) ==
    /\ IF k = 0 THEN proc' = VerifyRefused(p)
       ELSE IF now > otps[k].expires_at THEN proc' = VerifyRefused(p)
       ELSE proc' = [proc EXCEPT ![p].pc = "mark", ![p].otp_doc = otps[k]]
    /\ UNCHANGED <<users, otps, mailUp, hist, nextId, now>>
    /\ UNCHANGED uploadVars

\* POST /auth/verify-otp and POST /auth/reset-password: the first await of
\* verify_otp
VerifyFind(p) ==
    /\ proc[p].pc \in {"verify", "reset"}
    /\ Verified(p, FirstMatch({i \in 1..Len(otps) :
                      VerifyFilter(otps[i], proc[p].email, proc[p].otp,
                                   PurposeOf(proc[p].op))}))

\* verify_otp: update_one({"_id": otp_doc["_id"]}, {"$set": {"verified": True}})
\* and return True
VerifyMark(p) ==
    /\ proc[p].pc = "mark"
    /\ otps' = [i \in 1..Len(otps) |->
                   IF otps[i].oid = proc[p].otp_doc.oid
                   THEN [otps[i] EXCEPT !.verified = TRUE] ELSE otps[i]]
    /\ hist' = [hist EXCEPT !.wins = Append(@, proc[p].otp_doc.issue)]
    /\ IF proc[p].op = "verify"
       THEN proc' = Respond(p, 200, "Email verified successfully")
       ELSE proc' = [proc EXCEPT ![p].pc = "reset_user"]
    /\ UNCHANGED <<users, mailUp, nextId, now>>
    /\ UNCHANGED uploadVars

\* reset_password after verify_otp: find_one on db.users
ResetFindUser(p) ==
    /\ proc[p].pc = "reset_user"
    /\ IF ~HasUser(users, proc[p].email)
       THEN proc' = Respond(p, 400, "User not found")
       ELSE proc' = [proc EXCEPT ![p].pc = "reset_update", ![p].user = TRUE]
    /\ UNCHANGED <<users, otps, mailUp, hist, nextId, now>>
    /\ UNCHANGED uploadVars

\* reset_password: update_one sets the new hashed_password of the first user
\* with the email; the route answers
ResetUpdate(p) ==
    /\ proc[p].pc = "reset_update"
    /\ users' = [i \in 1..Len(users) |->
                    IF i = FirstMatch({k \in 1..Len(users) :
                                          users[k].email = proc[p].email})
                    THEN [users[i] EXCEPT !.hashed_password = Hash(proc[p].password)]
                    ELSE users[i]]
    /\ hist' = [hist EXCEPT !.changes = Append(@,
                   [issue |-> proc[p].otp_doc.issue, password |-> proc[p].password])]
    /\ proc' = Respond(p, 200, "Password reset successfully")
    /\ UNCHANGED <<otps, mailUp, nextId, now>>
    /\ UNCHANGED uploadVars

\* POST /auth/register up to the answer of the find_one on db.users
RegisterFindUser(p) ==
    /\ proc[p].pc = "register"
    /\ IF HasUser(users, proc[p].email)
       THEN proc' = Respond(p, 400, "Email already registered")
       ELSE proc' = [proc EXCEPT ![p].pc = "register_otp"]
    /\ UNCHANGED <<users, otps, mailUp, hist, nextId, now>>
    /\ UNCHANGED uploadVars

\* register: find_one on db.otps for a verified signup code
RegisterFindOtp(p) ==
    /\ proc[p].pc = "register_otp"
    /\ proc' = [proc EXCEPT ![p].pc = "register_insert",
                            ![p].verified_otp =
                                \E i \in 1..Len(otps) :
                                    /\ otps[i].email = proc[p].email
                                    /\ otps[i].purpose = "signup"
                                    /\ otps[i].verified]
    /\ UNCHANGED <<users, otps, mailUp, hist, nextId, now>>
    /\ UNCHANGED uploadVars

\* register: insert_one on db.users, then the token
RegisterInsert(p) ==
    /\ proc[p].pc = "register_insert"
    /\ users' = Append(users,
           [oid |-> nextId + 1, email |-> proc[p].email,
            hashed_password |-> Hash(proc[p].password),
            email_verified |-> proc[p].verified_otp])
    /\ nextId' = nextId + 1
    /\ proc' = Respond(p, 200, "token")
    /\ UNCHANGED <<otps, mailUp, hist, now>>
    /\ UNCHANGED uploadVars

(* ------------------------------------------------------------------ *)
(* Inputs: filenames and uploaded bytes the requests are drawn from   *)
(* ------------------------------------------------------------------ *)

\* most data rows of an uploaded table
MaxRows == 2

fCsv      == <<"a",".","c","s","v">>
fCsvUpper == <<"A",".","C","s","V">>
fXlsx     == <<"a",".","x","l","s","x">>
fXlsUpper == <<"a",".","X","L","S">>
fPdf      == <<"a",".","p","d","f">>
fPdfUpper == <<"a",".","P","D","F">>
fTxt      == <<"a",".","t","x","t">>
fNoExt    == <<"d","a","t","a">>
fBareCsv  == <<"c","s","v">>

Filenames == {fCsv, fCsvUpper, fXlsx, fXlsUpper, fPdf, fPdfUpper, fTxt, fNoExt, fBareCsv}

hQty          == <<"Q","t","y">>
hCustomerName == <<" ","C","u","s","t","o","m","e","r"," ","N","a","m","e"," ">>
hPhoneNumber  == <<"P","H","O","N","E"," ","N","U","M","B","E","R">>
hNote         == <<"n","o","t","e">>
hCustomer     == <<"c","u","s","t","o","m","e","r">>
hFullName     == <<"f","u","l","l","_","n","a","m","e">>
hMobile       == <<"m","o","b","i","l","e">>
hEmailAddress == <<"E","m","a","i","l"," ","A","d","d","r","e","s","s">>
hOrderCount   == <<"O","R","D","E","R"," ","C","O","U","N","T">>
hTotalAmount  == <<" ","t","o","t","a","l"," ","a","m","o","u","n","t">>

tAl    == Txt(<<"A","l">>)
tAbc   == Txt(<<"a","b","c">>)
tMail  == Txt(<<"a","@","b">>)
tPhone == Txt(<<"(","5","5","5",")"," ","1","2","3","-","4","5","6","7">>)
tVip   == Txt(<<"v","i","p">>)
tPlus  == Txt(<<"+","1"," ","5",".","5","-","5","x">>)

\* a header row and the data rows a table under it is made of
TableKinds ==
    { \* numeric metrics around the three thresholds, and the rows of the examples
      [header |-> <<sName, sPhone, sQuantity, sOrders, sAmount>>,
       pool   |-> { <<tAl, Num(5), Num(60), Num(12), Num(0)>>,
                    <<tAl, Num(5), Num(10), Num(1), Num(6000)>>,
                    <<tAl, Num(5), Num(0), Num(15), Num(0)>>,
                    <<tAl, Num(5), Num(5), Num(2), Num(100)>>,
                    <<tAl, Num(5), Num(50), Num(9), Num(4999)>>,
                    <<tAl, Num(5), Num(49), Num(10), Num(4999)>>,
                    <<tAl, Num(5), Num(49), Num(9), Num(5000)>>,
                    <<tAl, Num(5), Num(49), Num(9), Num(4999)>> }],
      \* a quantity that is missing or no number
      [header |-> <<sName, sPhone, hQty>>,
       pool   |-> { <<tAl, tPhone, NaN>>, <<tAl, tPhone, tAbc>>, <<tAl, tPhone, Num(60)>> }],
      \* a purchase count that is missing or no number
      [header |-> <<sName, sPhone, sOrders>>,
       pool   |-> { <<tAl, Num(5), NaN>>, <<tAl, Num(5), tAbc>>, <<tAl, Num(5), Num(12)>> }],
      \* an order value that is missing or no number, next to a quantity
      [header |-> <<sName, sPhone, sQuantity, sAmount>>,
       pool   |-> { <<tAl, Num(5), Num(60), tAbc>>, <<tAl, Num(5), Num(5), tAbc>>,
                    <<tAl, Num(5), Num(5), NaN>>, <<tAl, Num(5), Num(5), Num(7000)>> }],
      \* names and emails that are missing
      [header |-> <<sName, sPhone, sEmail>>,
       pool   |-> { <<tAl, tPhone, tMail>>, <<NaN, tPhone, tMail>>, <<tAl, NaN, NaN>>,
                    <<tAl, tPlus, tMail>> }],
      \* required columns missing
      [header |-> <<sEmail, sAmount>>,
       pool   |-> { <<tMail, Num(10)>> }],
      [header |-> <<sName, sEmail>>,
       pool   |-> { <<tAl, tMail>> }],
      \* synonyms with other casing and spacing, and a column outside the schema
      [header |-> <<hCustomerName, hPhoneNumber, hQty, hNote>>,
       pool   |-> { <<tAl, tPhone, Num(50), tVip>>, <<tAl, tPhone, Num(1), NaN>> }],
      \* a synonym for each of the six fields, with other casing and spacing
      [header |-> <<hCustomerName, hPhoneNumber, hEmailAddress, hQty, hOrderCount,
                    hTotalAmount>>,
       pool   |-> { <<tAl, tPhone, tMail, Num(50), Num(10), Num(1)>>,
                    <<tAl, tPlus, tMail, Num(1), Num(1), Num(1)>> }],
      \* a category column and a column outside the schema
      [header |-> <<sName, sPhone, sCategory, hNote>>,
       pool   |-> { <<tAl, tPhone, tVip, tVip>>, <<tAl, tPhone, tVip, NaN>> }],
      \* several headers for one canonical field
      [header |-> <<hCustomer, hFullName, hMobile>>,
       pool   |-> { <<tAl, tAbc, tPhone>> }],
      [header |-> <<sName, sPhone, hMobile>>,
       pool   |-> { <<tAl, tPhone, Num(5)>> }],
      \* columns named like the bookkeeping keys of a document
      [header |-> <<sName, sPhone, hId, hUserId, hUploadedAt, hSourceFile, hFileUrl,
                    hFileId, hCustomFields>>,
       pool   |-> { <<tAl, tPhone, tAbc, tVip, tAbc, tMail, tAbc, tAbc, tVip>>,
                    <<tAl, tPhone, Num(7), NaN, Num(0), NaN, tAbc, Num(9), NaN>> }] }

\* the sequences of at most n elements of S
SeqUpTo(S, n) == UNION {[1..k -> S] : k \in 0..n}

Tables == UNION {{[header |-> k.header, rows |-> rws] : rws \in SeqUpTo(k.pool, MaxRows)}
                 : k \in TableKinds}

CsvBodies   == {CsvBody(t.header, t.rows) : t \in Tables}
ExcelBodies == {ExcelBody(t.header, t.rows) : t \in Tables}

tNamePhone == <<"n","a","m","e"," "," ","p","h","o","n","e">>
tNamePhoneNote == tNamePhone \o <<" "," ","n","o","t","e">>

PdfBodies ==
    { \* one detected table
      PdfBody(<<[header |-> <<sName, sPhone>>, rows |-> <<<<tAl, tPhone>>>>]>>, <<>>, FALSE),
      \* a detected table with an empty name cell
      PdfBody(<<[header |-> <<sName, sPhone>>, rows |-> <<<<NaN, tPhone>>>>]>>, <<>>, FALSE),
      \* a detected table with a column outside the schema and an empty cell in it
      PdfBody(<<[header |-> <<sName, sPhone, hNote>>,
                 rows |-> <<<<tAl, tPhone, NaN>>, <<tAl, tPhone, tVip>>>>]>>, <<>>, FALSE),
      \* a detected table with a metric column
      PdfBody(<<[header |-> <<sName, sPhone, hQty>>,
                 rows |-> <<<<tAl, tPhone, Txt(<<"6","0">>)>>>>]>>, <<>>, FALSE),
      \* no table; text with a two-token header, a matching and a non-matching line
      PdfBody(<<>>, tNamePhone \o <<"\n","A","l","\t","5","\n","B","o","\n">>, FALSE),
      \* no table; a single line of text
      PdfBody(<<>>, tNamePhone \o <<"\n">>, FALSE),
      \* no table; no line matches the header
      PdfBody(<<>>, tNamePhone \o <<"\n","B","o"," ","5","\n">>, FALSE),
      \* no table; a three-token header, a three-token and a two-token line
      PdfBody(<<>>, tNamePhoneNote
                    \o <<"\n","A","l"," "," ","5"," "," ","x","\n","B","o"," "," ","7","\n">>,
              FALSE),
      \* no table; blank lines, padded lines, and lines of one, two, three and
      \* four tokens under a three-token header
      PdfBody(<<>>, <<"\n"," ">> \o tNamePhoneNote
                    \o <<" ","\n","A","l"," "," ","5"," "," ","x","\n"," ","\n",
                         "B","o"," "," ","7","\n","C","y","\t","8","\t","y","\n",
                         "D","i"," "," ","9"," "," ","z"," "," ","w","\n",
                         "E","d"," ","1"," ","v","\n">>,
              FALSE),
      \* a detected table that has a header row only; the text is usable
      PdfBody(<<[header |-> <<sName, sPhone>>, rows |-> <<>>]>>,
              tNamePhone \o <<"\n","A","l"," "," ","5","\n">>, FALSE),
      \* table detection raises; the text is usable
      PdfBody(<<>>, tNamePhone \o <<"\n","A","l"," "," ","5","\n">>, TRUE) }

\* bodies tried under every filename
CommonBodies ==
    {EmptyBody, GarbageBody,
     CsvBody(<<sName, sPhone>>, <<<<tAl, tPhone>>>>),
     ExcelBody(<<sName, sPhone>>, <<<<tAl, tPhone>>>>)} \cup PdfBodies

\* every body under the filenames of its own format, the common ones under all
Uploads ==
    {[filename |-> f, body |-> b] : f \in Filenames, b \in CommonBodies}
    \cup {[filename |-> f, body |-> b] : f \in {fCsv, fCsvUpper}, b \in CsvBodies}
    \cup {[filename |-> f, body |-> b] : f \in {fXlsx, fXlsUpper}, b \in ExcelBodies}

(* ------------------------------------------------------------------ *)
(* Specification: one upload request against a store that is empty or *)
(* holds the documents of an earlier upload                           *)
(* ------------------------------------------------------------------ *)

\* the documents an earlier upload of another user left behind
EarlierDocs ==
    Stored(BuildCustomers(CsvBody(<<sName, sPhone>>, <<<<tAl, tPhone>>>>),
                          fCsv, "u2", 1, 2, 2, 0).docs, 3)

Init ==
    /\ customers \in {<<>>, EarlierDocs}
    /\ files = <<>>
    /\ bucket = <<>>
    /\ nextId = 4
    /\ now = 1
    /\ pc = [r \in Requests |-> "idle"]
    /\ req = [r \in Requests |-> NoReq]
    /\ snap = [r \in Requests |-> NoSnap]
    /\ meta = [r \in Requests |-> NoMeta]
    /\ work = [r \in Requests |-> NoWork]
    /\ resp = [r \in Requests |-> NoResp]
    /\ call = NoCall
    /\ AuthIdle

Next ==
    \/ \E u \in Users, up \in Uploads : Receive(1, u, up.filename, up.body)
    \/ StoreFileOk(1)
    \/ StoreFileBucketFails(1)
    \/ StoreFileInsertFails(1)
    \/ Process(1)
    \/ InsertOk(1)
    \/ \E k \in 0..MaxRows : InsertFails(1, k)

Spec == Init /\ [][Next]_vars

(* ------------------------------------------------------------------ *)
(* Specification: two upload requests, whose steps interleave at the  *)
(* awaits of the endpoint                                             *)
(* ------------------------------------------------------------------ *)

\* the files the two requests upload
RepeatUploads ==
    { [filename |-> fCsv,
       body |-> CsvBody(<<sName, sPhone, hNote>>,
                        <<<<tAl, tPhone, tVip>>, <<tAl, tPhone, NaN>>>>)],
      [filename |-> fXlsx,
       body |-> ExcelBody(<<sName, sPhone, sOrders>>, <<<<tAl, Num(5), Num(12)>>>>)],
      [filename |-> fCsv,
       body |-> CsvBody(<<sEmail, sAmount>>, <<<<tMail, Num(10)>>>>)] }

NextTwo ==
    \E r \in Requests :
        \/ \E u \in Users, up \in RepeatUploads : Receive(r, u, up.filename, up.body)
        \/ StoreFileOk(r)
        \/ StoreFileBucketFails(r)
        \/ StoreFileInsertFails(r)
        \/ Process(r)
        \/ InsertOk(r)
        \/ \E k \in 0..MaxRows : InsertFails(r, k)

SpecTwo == Init /\ [][NextTwo]_vars

(* ------------------------------------------------------------------ *)
(* Specification: uploads, list calls and clear calls of the users,   *)
(* also over a collection that holds more than one list call fetches  *)
(* ------------------------------------------------------------------ *)

\* what a user has after uploading ListLimit + 1 rows: one more document
\* than a list call fetches
ManyDocs ==
    [i \in 1..(ListLimit + 1) |->
        [oid |-> 0 - i,
         doc |-> [EarlierDocs[1].doc EXCEPT !.id = 0 - i, !.user_id = "u1"]]]

InitList ==
    /\ customers \in {<<>>, EarlierDocs, ManyDocs}
    /\ files = <<>>
    /\ bucket = <<>>
    /\ nextId = 4
    /\ now = 1
    /\ pc = [r \in Requests |-> "idle"]
    /\ req = [r \in Requests |-> NoReq]
    /\ snap = [r \in Requests |-> NoSnap]
    /\ meta = [r \in Requests |-> NoMeta]
    /\ work = [r \in Requests |-> NoWork]
    /\ resp = [r \in Requests |-> NoResp]
    /\ call = NoCall
    /\ AuthIdle

NextList ==
    \/ \E u \in Users, up \in RepeatUploads : Receive(1, u, up.filename, up.body)
    \/ StoreFileOk(1)
    \/ Process(1)
    \/ InsertOk(1)
    \/ \E u \in Users, rev \in BOOLEAN : ListCustomers(u, rev)
    \/ \E u \in Users : ClearCustomers(u)

SpecList == InitList /\ [][NextList]_vars

(* ------------------------------------------------------------------ *)
(* Specification: two clients calling the authentication routes, the  *)
(* steps of their calls interleaving at the awaits                    *)
(* ------------------------------------------------------------------ *)

\* a user who registered earlier
Alice ==
    [oid |-> 1, email |-> SignupEmail, hashed_password |-> Hash("pw0"),
     email_verified |-> TRUE]

InitAuth ==
    /\ customers = <<>>
    /\ files = <<>>
    /\ bucket = <<>>
    /\ nextId = 4
    /\ now = 1
    /\ pc = [r \in Requests |-> "idle"]
    /\ req = [r \in Requests |-> NoReq]
    /\ snap = [r \in Requests |-> NoSnap]
    /\ meta = [r \in Requests |-> NoMeta]
    /\ work = [r \in Requests |-> NoWork]
    /\ resp = [r \in Requests |-> NoResp]
    /\ call = NoCall
    /\ users \in {<<>>, <<Alice>>}
    /\ otps = <<>>
    /\ mailUp \in BOOLEAN
    /\ proc = [p \in Clients |-> NoProc]
    /\ hist = NoHist

NextAuth ==
    \/ Tick
    \/ \E p \in Clients :
          \/ Begin(p, "send_otp", SignupEmail, "", "")
          \/ \E e \in Emails : Begin(p, "forgot", e, "", "")
          \/ \E e \in Emails, c \in Codes : Begin(p, "verify", e, c, "")
          \/ \E e \in Emails, c \in Codes : Begin(p, "reset", e, c, PasswordOf(p))
          \/ Begin(p, "register", SignupEmail, "", PasswordOf(p))
          \/ SendOtpFindUser(p)
          \/ \E c \in Codes : SendOtpCreate(p, c)
          \/ ForgotFindUser(p)
          \/ \E c \in Codes : ForgotCreate(p, c)
          \/ VerifyFind(p)
          \/ VerifyMark(p)
          \/ ResetFindUser(p)
          \/ ResetUpdate(p)
          \/ RegisterFindUser(p)
          \/ RegisterFindOtp(p)
          \/ RegisterInsert(p)

SpecAuth == InitAuth /\ [][NextAuth]_vars

(* ------------------------------------------------------------------ *)
(* Properties                                                         *)
(* ------------------------------------------------------------------ *)

\* the request has run upload_customers up to the insert and built its documents
Built(r) == pc[r] \in {"insert", "done"} /\ work[r].ok

\* the request ended with the success response
Succeeded(r) == pc[r] = "done" /\ resp[r].status = 200

\* the rule of the specification on the three numbers of a document
SpecIsBulk(q, v) == (IsNum(q) /\ q.n >= 50) \/ (IsNum(v) /\ v.n >= 5000)
SpecIsFrequent(c) == c >= 10
SpecCategory(q, c, v) ==
    IF SpecIsBulk(q, v) /\ SpecIsFrequent(c) THEN "both"
    ELSE IF SpecIsBulk(q, v) THEN "bulk_buyer"
    ELSE IF SpecIsFrequent(c) THEN "frequent_customer"
    ELSE "regular"

\* the four example rows of the specification
IsRow(d, q, c, v) ==
    d.total_quantity = Num(q) /\ d.purchase_count = c /\ d.order_value = Num(v)
ExamplesOk(d) ==
    /\ IsRow(d, 60, 12, 0) => d.category = "both"
    /\ IsRow(d, 10, 1, 6000) => d.category = "bulk_buyer"
    /\ IsRow(d, 0, 15, 0) => d.category = "frequent_customer"
    /\ IsRow(d, 5, 2, 100) => d.category = "regular"

\* C1: whenever the documents of an upload are built, the category of every
\* row is the function of (total_quantity, purchase_count, order_value) the
\* specification gives, thresholds 50, 5000 and 10 included, and the four
\* example rows get both, bulk_buyer, frequent_customer and regular.
C1_CategoryRule ==
    \A r \in Requests : Built(r) =>
        \A i \in 1..Len(work[r].docs) :
            /\ work[r].docs[i].category =
                   SpecCategory(work[r].docs[i].total_quantity,
                                work[r].docs[i].purchase_count,
                                work[r].docs[i].order_value)
            /\ ExamplesOk(work[r].docs[i])

\* C1 witness: an upload whose rows sit exactly on a threshold and on an example
C1_Witness ==
    /\ Built(1)
    /\ Len(work[1].docs) = 2
    /\ IsRow(work[1].docs[1], 50, 9, 4999) /\ work[1].docs[1].category = "bulk_buyer"
    /\ IsRow(work[1].docs[2], 60, 12, 0) /\ work[1].docs[2].category = "both"

\* C2 as stated: the counts of a successful upload have an entry for each of
\* the four categories.
C2_AllFourReported ==
    \A r \in Requests : Succeeded(r) => DOMAIN resp[r].classifications = CustomerCategory

\* the categories the returned documents have
CategoriesOf(docs) == {docs[i].category : i \in 1..Len(docs)}

\* C2 amended: the counts of a successful upload have an entry exactly for the
\* categories that at least one row received, each with the (positive) number
\* of rows that received it; a category no row received is omitted.
C2_OnlyReceivedReported ==
    \A r \in Requests : Succeeded(r) =>
        /\ DOMAIN resp[r].classifications = CategoriesOf(resp[r].customers)
        /\ \A c \in DOMAIN resp[r].classifications :
               /\ resp[r].classifications[c] > 0
               /\ resp[r].classifications[c] =
                      Cardinality({i \in 1..Len(resp[r].customers) :
                                      resp[r].customers[i].category = c})

\* C2 witness: a successful upload of two rows of one category
C2_Witness ==
    /\ Succeeded(1)
    /\ Len(resp[1].customers) = 2
    /\ DOMAIN resp[1].classifications = {"regular"}
    /\ resp[1].classifications["regular"] = 2

RECURSIVE SumOver(_, _)
SumOver(f, S) ==
    IF S = {} THEN 0
    ELSE LET c == CHOOSE x \in S : TRUE IN f[c] + SumOver(f, S \ {c})

\* the documents the collection gained since the request arrived
Gained(r) == SubSeq(customers, Len(snap[r].customers) + 1, Len(customers))

\* C3: for a successful upload the category counts sum to the number of parsed
\* data rows, which is total_customers, the length of the returned list and the
\* number of documents inserted; the returned documents are the inserted ones,
\* in row order, without the storage-assigned _id.
C3_CountsAgree ==
    \A r \in Requests : Succeeded(r) =>
        /\ SumOver(resp[r].classifications, DOMAIN resp[r].classifications)
               = Len(work[r].df.rows)
        /\ resp[r].total_customers = Len(work[r].df.rows)
        /\ Len(resp[r].customers) = resp[r].total_customers
        /\ Len(customers) = Len(snap[r].customers) + resp[r].total_customers
        /\ SubSeq(customers, 1, Len(snap[r].customers)) = snap[r].customers
        /\ WithoutOid(Gained(r)) = resp[r].customers
        /\ resp[r].customers = work[r].docs

\* C3 witness: a successful upload of two rows of different categories into a
\* collection that already held a document
C3_Witness ==
    /\ Succeeded(1)
    /\ snap[1].customers # <<>>
    /\ resp[1].total_customers = 2
    /\ Cardinality(DOMAIN resp[1].classifications) = 2

\* the five validation failures of an upload
ValidationKinds ==
    {"UnsupportedFormat", "EmptyFile", "MalformedFile", "NoTabularDataFound",
     "MissingRequiredColumns"}

\* C4 as stated: every validation failure of an upload reaches the caller as a
\* 4xx outcome, wherever it is detected.
C4_ValidationIs4xx ==
    \A r \in Requests :
        (pc[r] = "done" /\ resp[r].err.kind \in ValidationKinds)
            => resp[r].status \in 400..499

\* the persistent state is what it was when the request arrived
StoresUntouched(r) ==
    /\ customers = snap[r].customers
    /\ files = snap[r].files
    /\ bucket = snap[r].bucket

\* the request ended with an exception of parsing, normalization,
\* classification or document construction
FailedInProcessing(r) == pc[r] = "done" /\ work[r].err # NoErr

\* C5 as stated: a request writes nothing to any persistent store before the
\* customers bulk insert, and a request that fails in processing leaves all
\* persisted state as it was.
C5_NothingBeforeInsert ==
    \A r \in Requests :
        /\ pc[r] \in {"store", "process", "insert"} => StoresUntouched(r)
        /\ FailedInProcessing(r) => StoresUntouched(r)

\* the file of the request is the one thing the bucket and db.files gained
FileStored(r) ==
    /\ Len(bucket) = Len(snap[r].bucket) + 1
    /\ SubSeq(bucket, 1, Len(snap[r].bucket)) = snap[r].bucket
    /\ bucket[Len(bucket)].user_id = req[r].user_id
    /\ bucket[Len(bucket)].original_filename = req[r].filename
    /\ Len(files) = Len(snap[r].files) + 1
    /\ SubSeq(files, 1, Len(snap[r].files)) = snap[r].files
    /\ files[Len(files)].user_id = req[r].user_id
    /\ files[Len(files)].original_file_name = req[r].filename

\* C5 amended: a request writes nothing to the customers collection before the
\* customers bulk insert, but it stores the file in cloud storage and adds its
\* record to the files collection before parsing starts; a request that fails
\* in parsing, normalization, classification or document construction leaves
\* the customers collection as it was and the stored file and its record behind.
C5_CustomersUntouchedBeforeInsert ==
    \A r \in Requests :
        /\ pc[r] \in {"store", "process", "insert"} => customers = snap[r].customers
        /\ pc[r] = "store" => (files = snap[r].files /\ bucket = snap[r].bucket)
        /\ pc[r] \in {"process", "insert"} => FileStored(r)
        /\ FailedInProcessing(r) => (customers = snap[r].customers /\ FileStored(r))

\* C5 witness: a request against a non-empty collection failed on its columns
C5_Witness ==
    /\ FailedInProcessing(1)
    /\ resp[1].err.kind = "MissingRequiredColumns"
    /\ snap[1].customers # <<>>
    /\ customers = snap[1].customers
    /\ Len(files) = 1

\* parse_csv_file returned a normalized frame for the request
Normalized(r) == pc[r] \in {"insert", "done"} /\ work[r].df # EmptyDF

CanonicalFields ==
    {sName, sPhone, sEmail, sTotalQuantity, sPurchaseCount, sOrderValue}

\* C6 as stated: after normalization succeeds every row has a present value for
\* each of the six canonical fields.
C6_EveryRowPopulated ==
    \A r \in Requests : Normalized(r) =>
        \A i \in 1..Len(work[r].df.rows) : \A c \in CanonicalFields :
            /\ HasCol(work[r].df, c)
            /\ ~IsNaN(RowGet(work[r].df, work[r].df.rows[i], c, NaN))

Metrics == {sTotalQuantity, sPurchaseCount, sOrderValue}

\* some metric cell of the frame is text that is no number
HasNonNumericMetric(df) ==
    \E i \in 1..Len(df.rows) : \E c \in Metrics :
        /\ IsTxt(RowGet(df, df.rows[i], c, NaN))
        /\ ~IsNumeric(RowGet(df, df.rows[i], c, NaN).s)

\* no metric cell of the frame is absent
NoMissingMetric(df) ==
    \A i \in 1..Len(df.rows) : \A c \in Metrics : ~IsNaN(RowGet(df, df.rows[i], c, NaN))

\* C7 as stated: a non-numeric value in a metric column never makes the upload
\* fail; the rows are classified and stored.
C7_NonNumericTolerated ==
    \A r \in Requests :
        (/\ pc[r] = "done"
         /\ Normalized(r)
         /\ HasNonNumericMetric(work[r].df)
         /\ NoMissingMetric(work[r].df)
         /\ resp[r].err.kind # "InsertFailed")
            => (resp[r].status = 200 /\ Len(resp[r].customers) = Len(work[r].df.rows))

\* the request ran parse_csv_file (the file was stored and upload_customers entered)
RanParse(r) == pc[r] \in {"insert", "done"} /\ meta[r] # NoMeta

\* the request uploaded a table under a filename of the table's own format
ReadableTable(r) ==
    \/ req[r].body.kind = "csv" /\ req[r].filename \in {fCsv, fCsvUpper}
    \/ req[r].body.kind = "excel" /\ req[r].filename \in {fXlsx, fXlsUpper}

\* the canonical name the specification's synonym table gives each header of
\* the uploaded tables
SpecColumn(h) ==
    CASE h \in {sName, hCustomerName, hCustomer, hFullName} -> sName
      [] h \in {sPhone, hPhoneNumber, hMobile} -> sPhone
      [] h \in {sEmail, hEmailAddress} -> sEmail
      [] h \in {sQuantity, hQty} -> sTotalQuantity
      [] h \in {sOrders, hOrderCount} -> sPurchaseCount
      [] h \in {sAmount, hTotalAmount} -> sOrderValue
      [] OTHER -> h

SpecColumns(header) == [j \in 1..Len(header) |-> SpecColumn(header[j])]

\* the required names absent from cols, in the order name, phone
SpecMissing(cols) ==
    (IF \E j \in 1..Len(cols) : cols[j] = sName THEN <<>> ELSE <<sName>>)
    \o (IF \E j \in 1..Len(cols) : cols[j] = sPhone THEN <<>> ELSE <<sPhone>>)

\* C8: normalization succeeds only if name and phone are columns after the
\* header transform and the synonym mapping; otherwise the request fails with
\* the missing-required-columns error, which lists exactly the missing required
\* names and all columns found after mapping (headers email, amount: missing
\* name and phone, found email and order_value), and no document is built or
\* inserted.
C8_RequiredColumns ==
    \A r \in Requests :
        /\ Normalized(r) => (HasCol(work[r].df, sName) /\ HasCol(work[r].df, sPhone))
        /\ (RanParse(r) /\ ReadableTable(r)) =>
             IF SpecMissing(SpecColumns(req[r].body.header)) = <<>>
             THEN resp[r].err.kind # "MissingRequiredColumns"
             ELSE /\ pc[r] = "done"
                  /\ ~Normalized(r)
                  /\ resp[r].status = 400
                  /\ resp[r].err.kind = "MissingRequiredColumns"
                  /\ resp[r].err.missing = SpecMissing(SpecColumns(req[r].body.header))
                  /\ resp[r].err.found = SpecColumns(req[r].body.header)
                  /\ work[r].docs = <<>>
                  /\ customers = snap[r].customers
        /\ (RanParse(r) /\ ReadableTable(r) /\ req[r].body.header = <<sEmail, sAmount>>) =>
             /\ resp[r].err.missing = <<sName, sPhone>>
             /\ resp[r].err.found = <<sEmail, sOrderValue>>

\* C8 witness: the table with the headers email, amount was rejected
C8_Witness ==
    /\ RanParse(1)
    /\ req[1].body.header = <<sEmail, sAmount>>
    /\ Len(req[1].body.rows) = 1
    /\ resp[1].err.kind = "MissingRequiredColumns"
    /\ resp[1].err.missing = <<sName, sPhone>>

\* filenames with one of the four supported extensions
SupportedNames == {fCsv, fCsvUpper, fXlsx, fXlsUpper, fPdf, fPdfUpper}

\* C9: a zero-length payload under a supported extension is rejected with the
\* empty-file error, and no format-specific reader has been handed the bytes
\* when it is rejected (nothing was stored or parsed for the request).
C9_EmptyRejectedBeforeReaders ==
    \A r \in Requests :
        (pc[r] # "idle" /\ req[r].filename \in SupportedNames /\ req[r].body = EmptyBody)
            => /\ pc[r] = "done"
               /\ resp[r].status >= 400
               /\ resp[r].err.kind = "EmptyFile"
               /\ work[r].reader = "none"
               /\ work[r] = NoWork
               /\ meta[r] = NoMeta

\* C9 witness: the empty upload named a.csv was rejected
C9_Witness ==
    /\ pc[1] = "done"
    /\ req[1].filename = fCsv
    /\ req[1].body = EmptyBody
    /\ resp[1].err.kind = "EmptyFile"

\* the reader the specification assigns to each filename
SpecReader(f) ==
    CASE f \in {fCsv, fCsvUpper} -> "csv"
      [] f \in {fXlsx, fXlsUpper} -> "excel"
      [] f \in {fPdf, fPdfUpper} -> "pdf"
      [] OTHER -> "none"

\* C10: parse hands the bytes to the reader of the filename's extension,
\* compared without regard to case: .csv to the CSV reader, .xlsx and .xls to
\* the spreadsheet reader, .pdf to the PDF extractor; under every other
\* filename it fails with the unsupported-format error and no reader runs.
C10_DispatchByExtension ==
    \A r \in Requests :
        /\ RanParse(r) => work[r].reader = SpecReader(req[r].filename)
        /\ (pc[r] # "idle" /\ SpecReader(req[r].filename) = "none") =>
               /\ work[r].reader = "none"
               /\ pc[r] \in {"insert", "done"} => pc[r] = "done" /\ resp[r].status >= 400
               /\ RanParse(r) => (resp[r].err.kind = "UnsupportedFormat"
                                  /\ resp[r].err.exc = "ValueError")

\* C10 witness: a table uploaded as A.CsV went to the CSV reader
C10_Witness ==
    /\ RanParse(1)
    /\ req[1].filename = fCsvUpper
    /\ work[1].reader = "csv"
    /\ Succeeded(1)

(* ------------------------------------------------------------------ *)
(* Header synonyms                                                    *)
(* ------------------------------------------------------------------ *)

\* every header of the table is a spelling of a canonical field
AllSynonyms(header) == \A j \in 1..Len(header) : SpecColumn(header[j]) \in CanonicalFields

\* the names of the columns of a frame
ColumnSet(df) == {df.columns[j] : j \in 1..Len(df.columns)}

\* C11 as stated: every input whose headers are spellings of canonical fields
\* is normalized to exactly the six canonical columns.
C11_SynonymsGiveSixColumns ==
    \A r \in Requests :
        (RanParse(r) /\ ReadableTable(r) /\ AllSynonyms(req[r].body.header))
            => /\ Normalized(r)
               /\ Len(work[r].df.columns) = 6
               /\ ColumnSet(work[r].df) = CanonicalFields

\* no two headers of the table are spellings of the same field
OnePerField(header) ==
    \A j, k \in 1..Len(header) : SpecColumn(header[j]) = SpecColumn(header[k]) => j = k

\* the optional fields no header names, in the order the defaults are added
SpecAdded(cols) ==
    LET Absent(c) == \A j \in 1..Len(cols) : cols[j] # c
    IN  SelectSeq(<<sEmail, sTotalQuantity, sPurchaseCount, sOrderValue>>, Absent)

\* C11 amended: when the headers are spellings of canonical fields, one of
\* them names name, one names phone and no two name the same field,
\* normalization succeeds and yields exactly the six canonical columns: the
\* headers under their canonical names, in file order, then the fields no
\* header named.
C11_ValidSynonymsGiveSixColumns ==
    \A r \in Requests :
        (/\ RanParse(r) /\ ReadableTable(r)
         /\ AllSynonyms(req[r].body.header)
         /\ OnePerField(req[r].body.header)
         /\ SpecMissing(SpecColumns(req[r].body.header)) = <<>>)
            => /\ Normalized(r)
               /\ Len(work[r].df.columns) = 6
               /\ ColumnSet(work[r].df) = CanonicalFields
               /\ work[r].df.columns =
                      SpecColumns(req[r].body.header)
                          \o SpecAdded(SpecColumns(req[r].body.header))

\* C11 witness: the table headed ' Customer Name ', 'PHONE NUMBER', 'Qty' and
\* three more synonyms was normalized and stored
C11_Witness ==
    /\ Succeeded(1)
    /\ Len(req[1].body.header) = 6
    /\ req[1].body.header[1] = hCustomerName
    /\ req[1].body.header[2] = hPhoneNumber
    /\ work[1].df.columns =
           <<sName, sPhone, sEmail, sTotalQuantity, sPurchaseCount, sOrderValue>>
    /\ Len(work[1].df.rows) = 2

\* C12 as stated: when the required columns are there, normalization succeeds
\* with exactly one column for each canonical name, also when several headers
\* are spellings of one field.
C12_OneColumnPerField ==
    \A r \in Requests :
        (/\ RanParse(r) /\ ReadableTable(r)
         /\ SpecMissing(SpecColumns(req[r].body.header)) = <<>>)
            => /\ Normalized(r)
               /\ \A c \in CanonicalFields : Cardinality(ColIdx(work[r].df, c)) = 1

(* ------------------------------------------------------------------ *)
(* Phone and name values                                              *)
(* ------------------------------------------------------------------ *)

\* the characters the sanitization takes out
Separators == {" ", "\t", "\n", "-", "(", ")"}

\* s without its separators, the other characters in their order
RECURSIVE SpecSanitize(_)
SpecSanitize(s) ==
    IF s = <<>> THEN <<>>
    ELSE IF Head(s) \in Separators THEN SpecSanitize(Tail(s))
    ELSE <<Head(s)>> \o SpecSanitize(Tail(s))

\* the columns of the uploaded table that are spellings of field c
SpecIdx(header, c) == {j \in 1..Len(header) : SpecColumn(header[j]) = c}

\* the last of them
SpecLastIdx(header, c) ==
    CHOOSE j \in SpecIdx(header, c) : \A k \in SpecIdx(header, c) : k <= j

s5551234567 == <<"5","5","5","1","2","3","4","5","6","7">>

IsPhoneDigits(s) == \A k \in 1..Len(s) : IsDigit(s[k]) \/ (k = 1 /\ s[k] = "+")

\* C14 as stated: every persisted phone value consists of digits with an
\* optional leading symbol only.
C14_PhoneDigitsOnly ==
    \A i \in 1..Len(customers) : IsPhoneDigits(customers[i].doc.phone)

\* C14 amended: no persisted phone value contains a whitespace character, a
\* hyphen or a parenthesis; every other character of the value is kept.
C14_NoSeparatorsInPhone ==
    \A i \in 1..Len(customers) :
        \A k \in 1..Len(customers[i].doc.phone) :
            customers[i].doc.phone[k] \notin Separators

\* C14 witness: a persisted phone that keeps a dot and a letter
C14_Witness ==
    \E i \in 1..Len(customers) :
        /\ customers[i].doc.phone = <<"+","1","5",".","5","5","x">>
        /\ customers[i].doc.source_file = fCsv

\* C15 as stated: every persisted document has a non-empty name, and a row
\* whose name cell is absent is never stored under a placeholder.
C15_NameNonEmpty ==
    /\ \A i \in 1..Len(customers) : customers[i].doc.name # <<>>
    /\ \A r \in Requests :
          (Succeeded(r) /\ ReadableTable(r)) =>
              \A i \in 1..Len(resp[r].customers) :
                  ~IsNaN(req[r].body.rows[i][SpecLastIdx(req[r].body.header, sName)])

(* ------------------------------------------------------------------ *)
(* PDF extraction                                                     *)
(* ------------------------------------------------------------------ *)

\* the request handed its bytes to the PDF extractor
RanPdf(r) == RanParse(r) /\ work[r].reader = "pdf"

\* the structured pass found no table with a header row and a data row
NoUsableTable(body) ==
    \A k \in 1..Len(body.tables) : body.tables[k].rows = <<>>

\* C16 as stated: the text fallback runs only when the structured pass
\* completed and found no table, never after another failure of that pass.
C16_FallbackOnlyOnZeroTables ==
    \A r \in Requests :
        (RanPdf(r) /\ work[r].fallback)
            => (req[r].body.kind = "pdf" /\ ~req[r].body.raises
                /\ NoUsableTable(req[r].body))

\* C16 amended: the text fallback runs whenever the structured pass does not
\* return a frame: when it found no table with a header and a data row, and
\* also when it raised (the bytes do not open as a PDF, table detection
\* raises); it does not run when the structured pass returned a frame.
C16_FallbackOnAnyFailure ==
    \A r \in Requests :
        RanPdf(r) =>
            (work[r].fallback <=>
                (\/ req[r].body.kind # "pdf"
                 \/ req[r].body.raises
                 \/ NoUsableTable(req[r].body)))

\* C16 witness: table detection raised, the fallback ran and its rows were stored
C16_Witness ==
    /\ RanPdf(1)
    /\ req[1].body.raises
    /\ work[1].fallback
    /\ Succeeded(1)
    /\ Len(resp[1].customers) = 1


\* the positions of the newlines of a text, with both ends
LineBreaks(text) == {0, Len(text) + 1} \cup {i \in 1..Len(text) : text[i] = "\n"}

\* the lines of a text from line break b on
RECURSIVE SpecLinesFrom(_, _)
SpecLinesFrom(text, b) ==
    IF b = Len(text) + 1 THEN <<>>
    ELSE LET e == CHOOSE x \in LineBreaks(text) :
                      x > b /\ \A y \in LineBreaks(text) : y > b => x <= y
         IN  <<SubSeq(text, b + 1, e - 1)>> \o SpecLinesFrom(text, e)

\* the non-empty trimmed lines of a text
SpecLines(text) ==
    LET all == SpecLinesFrom(text, 0)
        NonEmpty(l) == l # <<>>
    IN  SelectSeq([k \in 1..Len(all) |-> Strip(all[k])], NonEmpty)

\* the separators of a line: the maximal runs of whitespace that are two or
\* more characters long, and the single tabs
SpecSeparators(s) ==
    {p \in (1..Len(s)) \X (1..Len(s)) :
        /\ p[1] <= p[2]
        /\ \A k \in p[1]..p[2] : IsSpace(s[k])
        /\ (p[1] = 1 \/ ~IsSpace(s[p[1] - 1]))
        /\ (p[2] = Len(s) \/ ~IsSpace(s[p[2] + 1]))
        /\ (p[2] > p[1] \/ s[p[1]] = "\t")}

\* the tokens of a line from position start on, seps the separators still ahead
RECURSIVE SpecTokensFrom(_, _, _)
SpecTokensFrom(s, start, seps) ==
    IF seps = {} THEN <<SubSeq(s, start, Len(s))>>
    ELSE LET m == CHOOSE p \in seps : \A q \in seps : p[1] <= q[1]
         IN  <<SubSeq(s, start, m[1] - 1)>> \o SpecTokensFrom(s, m[2] + 1, seps \ {m})

SpecTokens(s) == SpecTokensFrom(s, 1, SpecSeparators(s))

\* the lines after the header that have as many tokens as the header
SpecDataLines(lines) ==
    LET Matches(l) == Len(SpecTokens(l)) = Len(SpecTokens(lines[1]))
    IN  SelectSeq(Tail(lines), Matches)

\* the data lines of a text; none when it has no line after the header
SpecRows(text) ==
    IF Len(SpecLines(text)) < 2 THEN <<>> ELSE SpecDataLines(SpecLines(text))

\* the frame the specification's fallback gives for the lines of a text
SpecFallbackFrame(lines) ==
    FrameOfStrings(SpecTokens(lines[1]),
        [i \in 1..Len(SpecDataLines(lines)) |->
            [j \in 1..Len(SpecTokens(lines[1])) |->
                Txt(SpecTokens(SpecDataLines(lines)[i])[j])]])

\* the fallback ran on the text of a PDF for the request
RanFallback(r) == RanPdf(r) /\ work[r].fallback /\ req[r].body.kind = "pdf"

\* C17: in the fallback the first non-empty trimmed line is the header, and a
\* later line is a data row exactly when splitting it on runs of two or more
\* whitespace characters or a tab gives as many tokens as the header has; the
\* other lines are dropped, the kept rows keep their order (a three-token
\* header, a three-token and a two-token line: one data row).
C17_FallbackKeepsMatchingLines ==
    \A r \in Requests :
        (RanFallback(r) /\ SpecRows(req[r].body.text) # <<>>)
            => /\ PdfFallback(req[r].body).ok
               /\ PdfFallback(req[r].body).df = SpecFallbackFrame(SpecLines(req[r].body.text))
               /\ Normalized(r)
               /\ Len(work[r].df.rows) = Len(SpecRows(req[r].body.text))
               /\ \A i \in 1..Len(work[r].df.rows) :
                      work[r].df.rows[i][1] = Txt(SpecTokens(SpecRows(req[r].body.text)[i])[1])
               /\ Len(SpecLines(req[r].body.text)) = 6 =>
                      /\ Len(work[r].df.rows) = 2
                      /\ work[r].df.rows[1][1] = Txt(<<"A","l">>)
                      /\ work[r].df.rows[2][1] = Txt(<<"C","y">>)

\* C17 witness: the text with a three-token header, a three-token line and a
\* two-token line gave one stored row
C17_Witness ==
    /\ RanFallback(1)
    /\ Succeeded(1)
    /\ Len(SpecLines(req[1].body.text)) = 3
    /\ Len(SpecTokens(SpecLines(req[1].body.text)[1])) = 3
    /\ Len(SpecTokens(SpecLines(req[1].body.text)[3])) = 2
    /\ Len(work[1].df.rows) = 1
    /\ resp[1].customers[1].name = <<"A","l">>
    /\ resp[1].customers[1].custom_fields = <<[key |-> hNote, value |-> Txt(<<"x">>)]>>

\* C18: whenever the fallback runs on a text with fewer than two non-empty
\* lines or with no line matching the header's token count, or on bytes that
\* do not open as a PDF, the request fails with the no-tabular-data error;
\* every failure that leaves the PDF extractor is that ValueError, which the
\* endpoint answers with 400.
C18_PdfFailuresAreNoTabularData ==
    \A r \in Requests :
        RanPdf(r) =>
            /\ (work[r].fallback
                /\ (req[r].body.kind # "pdf" \/ SpecRows(req[r].body.text) = <<>>))
                   => /\ pc[r] = "done"
                      /\ ~Normalized(r)
                      /\ resp[r].err = Err("ValueError", "NoTabularDataFound")
                      /\ resp[r].status = 400
            /\ ~ParsePdfFile(req[r].body).ok
                   => /\ ParsePdfFile(req[r].body).err = Err("ValueError", "NoTabularDataFound")
                      /\ resp[r].err = Err("ValueError", "NoTabularDataFound")

\* C18 witness: a PDF whose text has a header line and no matching line was
\* rejected with the no-tabular-data error
C18_Witness ==
    /\ RanFallback(1)
    /\ Len(SpecLines(req[1].body.text)) = 2
    /\ SpecRows(req[1].body.text) = <<>>
    /\ resp[1].status = 400
    /\ resp[1].err.kind = "NoTabularDataFound"

(* ------------------------------------------------------------------ *)
(* Auxiliary fields                                                   *)
(* ------------------------------------------------------------------ *)

\* the keys of an auxiliary map
KeysOf(cf) == {cf[k].key : k \in 1..Len(cf)}

\* the columns of the header that lie outside the standard fields and whose
\* cell in the row is there
SpecExtra(header, row) ==
    {j \in 1..Len(header) : SpecColumn(header[j]) \notin StandardFields /\ ~IsNaN(row[j])}

\* the auxiliary map cf holds exactly the cells of the columns in extra, each
\* under the name of its column and with the value the frame holds for it
HoldsExactly(cf, header, extra, frameRow) ==
    /\ KeysOf(cf) = {SpecColumn(header[j]) : j \in extra}
    /\ KeysOf(cf) \cap StandardFields = {}
    /\ Cardinality(KeysOf(cf)) = Len(cf)
    /\ Len(cf) = Cardinality(extra)
    /\ \A k \in 1..Len(cf) :
           \E j \in extra : SpecColumn(header[j]) = cf[k].key /\ cf[k].value = frameRow[j]

\* C20: the auxiliary map of a document holds exactly the columns of its row
\* that are none of name, phone, email, category, total_quantity,
\* purchase_count, order_value and whose value is not absent, each with the
\* value read for it; an empty string is a value and is kept; no standard
\* field name is a key of the map.
C20_CustomFields ==
    \A r \in Requests :
        /\ (Built(r) /\ ReadableTable(r)) =>
               \A i \in 1..Len(work[r].docs) :
                   /\ HoldsExactly(work[r].docs[i].custom_fields, req[r].body.header,
                          SpecExtra(req[r].body.header, req[r].body.rows[i]),
                          work[r].df.rows[i])
                   /\ \A j \in SpecExtra(req[r].body.header, req[r].body.rows[i]) :
                          IsTxt(req[r].body.rows[i][j]) =>
                              work[r].df.rows[i][j] = req[r].body.rows[i][j]
        /\ (Built(r) /\ RanPdf(r) /\ ~work[r].fallback /\ Len(req[r].body.tables) = 1) =>
               \A i \in 1..Len(work[r].docs) :
                   /\ HoldsExactly(work[r].docs[i].custom_fields, req[r].body.tables[1].header,
                          {j \in 1..Len(req[r].body.tables[1].header) :
                              SpecColumn(req[r].body.tables[1].header[j]) \notin StandardFields},
                          work[r].df.rows[i])
                   /\ \A j \in 1..Len(req[r].body.tables[1].header) :
                          (/\ SpecColumn(req[r].body.tables[1].header[j]) \notin StandardFields
                           /\ IsNaN(req[r].body.tables[1].rows[i][j]))
                              => work[r].df.rows[i][j] = Txt(<<>>)

\* C20 witness: of two rows with a category and a note column the first got the
\* note alone as its auxiliary map and the second, whose note is absent, none
C20_Witness ==
    /\ Built(1) /\ ReadableTable(1)
    /\ req[1].body.header = <<sName, sPhone, sCategory, hNote>>
    /\ Len(work[1].docs) = 2
    /\ work[1].docs[1].custom_fields = <<[key |-> hNote, value |-> tVip]>>
    /\ work[1].docs[2].custom_fields = <<>>

(* ------------------------------------------------------------------ *)
(* Identifiers across uploads                                         *)
(* ------------------------------------------------------------------ *)

\* s is the beginning of t
IsPrefix(s, t) == Len(s) <= Len(t) /\ SubSeq(t, 1, Len(s)) = s

\* the identifiers of a list of documents
IdsOf(docs) == {docs[i].id : i \in 1..Len(docs)}

\* both requests uploaded the same file for the same user, and both succeeded
SameFileTwice == Succeeded(1) /\ Succeeded(2) /\ req[1] = req[2]

\* the documents the collection held before the first of the two requests arrived
HeldBefore ==
    IF Len(snap[1].customers) <= Len(snap[2].customers)
    THEN snap[1].customers ELSE snap[2].customers

\* C19: the persisted documents have pairwise distinct ids; a request never
\* replaces or removes a document that was there when it arrived; the same
\* file uploaded twice for the same user adds both document sets in full, 2n
\* documents for n rows, with disjoint identifiers.
C19_DistinctIds ==
    /\ \A i, j \in 1..Len(customers) :
           customers[i].doc.id = customers[j].doc.id => i = j
    /\ \A r \in Requests : pc[r] # "idle" => IsPrefix(snap[r].customers, customers)
    /\ SameFileTwice =>
           /\ Len(resp[1].customers) = Len(req[1].body.rows)
           /\ Len(resp[2].customers) = Len(req[1].body.rows)
           /\ IdsOf(resp[1].customers) \cap IdsOf(resp[2].customers) = {}
           /\ Cardinality(IdsOf(resp[1].customers) \cup IdsOf(resp[2].customers))
                  = 2 * Len(req[1].body.rows)
           /\ Len(customers) = Len(HeldBefore) + 2 * Len(req[1].body.rows)
           /\ IsPrefix(HeldBefore, customers)
           /\ IdsOf(WithoutOid(customers)) =
                  IdsOf(WithoutOid(HeldBefore)) \cup IdsOf(resp[1].customers)
                      \cup IdsOf(resp[2].customers)

\* C19 witness: a file of two rows was uploaded twice by one user into a
\* collection that held a document, and the collection gained four documents
C19_Witness ==
    /\ SameFileTwice
    /\ Len(req[1].body.rows) = 2
    /\ HeldBefore # <<>>
    /\ Len(customers) = Len(HeldBefore) + 4

(* ------------------------------------------------------------------ *)
(* The bulk insert                                                    *)
(* ------------------------------------------------------------------ *)

\* the request uploaded a readable table with the required columns, one
\* header per field, and no data row
ZeroRows(r) ==
    /\ ReadableTable(r)
    /\ req[r].body.rows = <<>>
    /\ SpecMissing(SpecColumns(req[r].body.header)) = <<>>
    /\ OnePerField(req[r].body.header)

\* what holds of one request in every state
InsertOnceState(r) ==
    /\ pc[r] = "insert" => work[r].docs # <<>>
    /\ Succeeded(r) =>
           customers = snap[r].customers
               \o [i \in 1..Len(work[r].docs) |->
                      [oid |-> Gained(r)[i].oid, doc |-> work[r].docs[i]]]
    /\ (RanParse(r) /\ ZeroRows(r)) =>
           /\ Succeeded(r)
           /\ resp[r].total_customers = 0
           /\ resp[r].customers = <<>>
           /\ customers = snap[r].customers

\* the collection changes only in the step in which a request leaves its
\* insert call, and a request that has left it never returns to it
InsertOnceStep ==
    /\ customers' # customers =>
           \E r \in Requests : pc[r] = "insert" /\ pc'[r] = "done"
    /\ \A r \in Requests : pc[r] = "done" => pc'[r] = "done"

\* C21: a request issues at most one insert call against the customers
\* collection, which carries all documents of the upload; for a file with a
\* valid header and no data row no insert call is issued and the request
\* succeeds with total_customers = 0 and an empty customers list.
C21_SingleInsert ==
    /\ [](\A r \in Requests : InsertOnceState(r))
    /\ [][InsertOnceStep]_vars

\* C21 witness: a header-only table was answered with success and no document
C21_Witness ==
    /\ RanParse(1) /\ ZeroRows(1)
    /\ req[1].body.header = <<sName, sPhone, sQuantity, sOrders, sAmount>>
    /\ Succeeded(1)
    /\ resp[1].total_customers = 0
    /\ snap[1].customers # <<>>
    /\ customers = snap[1].customers

\* C22 as stated: a failed bulk insert ends the request with a 5xx outcome, and
\* the collection then holds all documents of the upload or none of them.
C22_InsertFailureAtomic ==
    \A r \in Requests :
        (pc[r] = "done" /\ resp[r].err.kind = "InsertFailed")
            => /\ resp[r].status \in 500..599
               /\ \/ customers = snap[r].customers
                  \/ WithoutOid(Gained(r)) = work[r].docs


(* ------------------------------------------------------------------ *)
(* Listing and clearing                                               *)
(* ------------------------------------------------------------------ *)

\* the documents of user u in a collection, as a set
DocsOf(coll, u) == {coll[i].doc : i \in {j \in 1..Len(coll) : coll[j].doc.user_id = u}}

\* how many documents of user u a collection holds
CountOf(coll, u) == Cardinality({j \in 1..Len(coll) : coll[j].doc.user_id = u})

NewestFirst(docs) ==
    \A i \in 1..Len(docs) : \A j \in 1..Len(docs) :
        i < j => docs[i].uploaded_at >= docs[j].uploaded_at

\* C23: a list call of user u returns all and only the documents of u the
\* collection holds (those uploaded for u and not cleared since), newest
\* upload first, and its 'total' is the number of those documents
C23_ListReturnsAll ==
    call.op = "list" =>
        /\ {call.customers[i] : i \in 1..Len(call.customers)}
               = DocsOf(call.before, call.user_id)
        /\ Len(call.customers) = CountOf(call.before, call.user_id)
        /\ NewestFirst(call.customers)
        /\ call.total = CountOf(call.before, call.user_id)


\* the stored documents of a collection, as a set
StoredSet(coll) == {coll[i] : i \in 1..Len(coll)}

\* this step is a clear call of user u
ClearStep(u) == call' # call /\ call'.op = "clear" /\ call'.user_id = u

\* this step is a list call of user u that follows a clear call of u with
\* nothing inserted in between
ListAfterClearStep(u) ==
    /\ call.op = "clear" /\ call.user_id = u
    /\ StoredSet(customers) \subseteq StoredSet(call.before)
    /\ call' # call /\ call'.op = "list" /\ call'.user_id = u

ClearEffect(u) ==
    /\ CountOf(customers', u) = 0
    /\ call'.deleted_count = CountOf(customers, u)
    /\ Len(customers') = Len(customers) - CountOf(customers, u)
    /\ \A i \in 1..Len(customers) :
           customers[i].doc.user_id # u => customers[i] \in StoredSet(customers')
    /\ StoredSet(customers') \subseteq StoredSet(customers)

\* C24: a clear call of user u removes every document of u, returns how many
\* it removed and leaves the documents of the other users as they were; a
\* list call of u that follows with no upload in between returns nothing
C24_ClearRemovesOwnOnly ==
    [][\A u \in Users :
          /\ ClearStep(u) => ClearEffect(u)
          /\ ListAfterClearStep(u) => (call'.customers = <<>> /\ call'.total = 0)]_vars

\* a clear call removed documents of its caller and left those of another user
C24_Witness ==
    /\ call.op = "clear"
    /\ call.deleted_count >= 1
    /\ CountOf(customers, call.user_id) = 0
    /\ customers # <<>>
    /\ Len(call.before) = Len(customers) + call.deleted_count


(* ------------------------------------------------------------------ *)
(* Two uploads at once                                                *)
(* ------------------------------------------------------------------ *)

\* a document without what differs from one run to the next: the generated
\* identifier, the time, and the reference to the stored file
Content(doc) ==
    [doc EXCEPT !.id = 0, !.uploaded_at = 0, !.file_url = NoRef, !.file_id = NoRef]

\* the documents request r builds when it runs with no other request around
AloneDocs(r) ==
    BuildCustomers(req[r].body, req[r].filename, req[r].user_id,
                   NoRef, NoRef, 0, 0).docs

\* the result of request r holds the documents of its own file, for its own
\* user, filename and stored file
OwnResult(r, alone) ==
    /\ Len(resp[r].customers) = Len(alone)
    /\ \A i \in 1..Len(alone) :
           /\ Content(resp[r].customers[i]) = Content(alone[i])
           /\ resp[r].customers[i].user_id = req[r].user_id
           /\ resp[r].customers[i].source_file = req[r].filename
           /\ resp[r].customers[i].file_id = meta[r].file_id
           /\ resp[r].customers[i].file_url = meta[r].file_url
    /\ \E k \in 1..Len(files) :
           /\ files[k].oid = meta[r].file_id
           /\ files[k].file_url = meta[r].file_url
           /\ files[k].user_id = req[r].user_id
           /\ files[k].original_file_name = req[r].filename
    /\ \A q \in Requests \ {r} : meta[q].file_id # meta[r].file_id

\* the documents request r returned, as a set
ResultSet(r) ==
    IF Succeeded(r) THEN {resp[r].customers[i] : i \in 1..Len(resp[r].customers)}
    ELSE {}

InsertFailed(r) == pc[r] = "done" /\ resp[r].err.kind = "InsertFailed"

\* C25: however the steps of two upload requests interleave, the result of
\* each holds exactly the documents built from its own file, with its own
\* user_id, filename and file reference, and once both are done the collection
\* has gained the documents of both results and nothing else, as it does when
\* one request runs after the other
C25_UploadsIndependent ==
    /\ \A r \in Requests : Succeeded(r) => OwnResult(r, AloneDocs(r))
    /\ (\A r \in Requests : pc[r] = "done" /\ ~InsertFailed(r)) =>
           /\ IsPrefix(HeldBefore, customers)
           /\ Len(customers) = Len(HeldBefore) + Len(resp[1].customers)
                                   + Len(resp[2].customers)
           /\ {customers[i].doc : i \in (Len(HeldBefore) + 1)..Len(customers)}
                  = ResultSet(1) \cup ResultSet(2)

\* C25 witness: two users uploaded different files, both requests arrived
\* before either wrote its documents, and both succeeded
C25_Witness ==
    /\ Succeeded(1) /\ Succeeded(2)
    /\ req[1].user_id # req[2].user_id
    /\ snap[1].customers = snap[2].customers
    /\ Len(resp[1].customers) = 2
    /\ Len(resp[2].customers) = 1
    /\ Len(customers) = Len(HeldBefore) + 3


(* ------------------------------------------------------------------ *)
(* Bookkeeping fields                                                 *)
(* ------------------------------------------------------------------ *)

\* the names of the bookkeeping keys of a document
BookkeepingNames ==
    {hId, hUserId, hUploadedAt, hSourceFile, hFileUrl, hFileId, hCustomFields}

\* the columns of the header named like a bookkeeping key whose cell is there
SpecBookkeepingCols(header, row) ==
    {j \in 1..Len(header) : header[j] \in BookkeepingNames /\ ~IsNaN(row[j])}

\* C30: whatever the file holds, also columns named id, user_id, uploaded_at,
\* source_file, file_url, file_id or custom_fields, each built document has the
\* caller's id as 'user_id', an identifier generated for it as 'id', the
\* filename of the upload as 'source_file' and the reference of the stored
\* file; the cells of such columns are found inside the auxiliary map only,
\* under the name of their column and with the value read for them
C30_BookkeepingFromRequest ==
    \A r \in Requests : Succeeded(r) =>
        \A i \in 1..Len(resp[r].customers) :
            /\ resp[r].customers[i].user_id = req[r].user_id
            /\ resp[r].customers[i].id \in 1..nextId
            /\ resp[r].customers[i].id \notin IdsOf(WithoutOid(snap[r].customers))
            /\ \A k \in 1..Len(resp[r].customers) :
                   resp[r].customers[k].id = resp[r].customers[i].id => k = i
            /\ resp[r].customers[i].source_file = req[r].filename
            /\ resp[r].customers[i].uploaded_at \in 1..now
            /\ resp[r].customers[i].file_url = meta[r].file_url
            /\ resp[r].customers[i].file_id = meta[r].file_id
            /\ ReadableTable(r) =>
                   \A j \in SpecBookkeepingCols(req[r].body.header, req[r].body.rows[i]) :
                       \E k \in 1..Len(resp[r].customers[i].custom_fields) :
                           /\ resp[r].customers[i].custom_fields[k].key = req[r].body.header[j]
                           /\ resp[r].customers[i].custom_fields[k].value
                                  = work[r].df.rows[i][j]
                           /\ IsTxt(req[r].body.rows[i][j]) =>
                                  resp[r].customers[i].custom_fields[k].value
                                      = req[r].body.rows[i][j]

\* C30 witness: a table with all seven columns was uploaded as a.csv by u1 and
\* its row became a document whose auxiliary map holds the seven cells
C30_Witness ==
    /\ Succeeded(1)
    /\ req[1].user_id = "u1"
    /\ req[1].filename = fCsv
    /\ Len(req[1].body.header) = 9
    /\ req[1].body.header[4] = hUserId
    /\ Len(resp[1].customers) = 1
    /\ req[1].body.rows[1][6] = tMail
    /\ resp[1].customers[1].source_file = fCsv
    /\ Len(resp[1].customers[1].custom_fields) = 7


(* ------------------------------------------------------------------ *)
(* Authentication                                                     *)
(* ------------------------------------------------------------------ *)

\* client p has its answer to a forgot-password request
ForgotDone(p) == proc[p].pc = "done" /\ proc[p].op = "forgot"

\* C26: the answer to a forgot-password request, status and message, is the
\* same for an email that belongs to a user as for one that does not, whatever
\* the users collection holds and whether the mail service works or not
C26_ForgotSameAnswer ==
    \A p \in Clients : \A q \in Clients :
        (ForgotDone(p) /\ ForgotDone(q) /\ proc[p].user /\ ~proc[q].user)
            => proc[p].resp = proc[q].resp

\* the number of the code created last for (email, purpose), 0 when there is none
SpecLatest(log, email, purpose) ==
    IF \E i \in 1..Len(log) : log[i].email = email /\ log[i].purpose = purpose
    THEN CHOOSE i \in 1..Len(log) :
             /\ log[i].email = email /\ log[i].purpose = purpose
             /\ \A j \in (i + 1)..Len(log) :
                    ~(log[j].email = email /\ log[j].purpose = purpose)
    ELSE 0

\* in this step the verify_otp call of client p reads a stored code and
\* accepts it
AcceptStep(p) == proc[p].pc \in {"verify", "reset"} /\ proc'[p].pc = "mark"

\* in this step the verify_otp call of client p returns True
ReturnsTrueStep(p) ==
    /\ proc'[p] # proc[p]
    /\ \/ proc'[p].pc = "done" /\ proc'[p].op = "verify" /\ proc'[p].resp.status = 200
       \/ proc'[p].pc = "reset_user"

\* the code number i is the one the call of client p may accept: it was issued
\* for the email and purpose of the call with the digits of the call, no code
\* was issued for them after it, it is at most OtpMinutes old, and no
\* verify_otp has returned True for it
SpecAcceptable(p, i) ==
    /\ i \in 1..Len(hist.log)
    /\ hist.log[i].email = proc[p].email
    /\ hist.log[i].purpose = PurposeOf(proc[p].op)
    /\ hist.log[i].otp = proc[p].otp
    /\ i = SpecLatest(hist.log, proc[p].email, PurposeOf(proc[p].op))
    /\ now <= hist.log[i].at + 10
    /\ \A k \in 1..Len(hist.wins) : hist.wins[k] # i

\* C27: verify_otp returns True only for a code it read and accepted, and it
\* accepts, at the moment it reads the stored code, only the code created last
\* for the (email, purpose), created at most 10 minutes ago and not verified
\* before; so a call that follows a successful verification of the code, or
\* the creation of a new code, returns False for the old one
C27_VerifyOtp ==
    [][\A p \in Clients :
          /\ AcceptStep(p) => SpecAcceptable(p, proc'[p].otp_doc.issue)
          /\ ReturnsTrueStep(p) =>
                 /\ proc[p].pc = "mark"
                 /\ hist'.wins = Append(hist.wins, proc[p].otp_doc.issue)]_vars

\* C27 witness: client 2 asked for a code, client 1 verified it and then tried
\* the same code again within its lifetime and was refused
C27_Witness ==
    /\ Len(hist.log) = 1
    /\ hist.wins = <<1>>
    /\ hist.calls = 3
    /\ now = 1
    /\ proc[2].pc = "done" /\ proc[2].op = "send_otp"
    /\ proc[1].pc = "done" /\ proc[1].op = "verify"
    /\ proc[1].resp.status = 400
    /\ proc[1].email = hist.log[1].email
    /\ proc[1].otp = hist.log[1].otp

\* no element occurs twice in s
NoRepeat(s) == \A i \in 1..Len(s) : \A j \in 1..Len(s) : s[i] = s[j] => i = j

\* C28: however verify_otp calls for one email, code and purpose interleave,
\* also those inside reset_password, at most one of them returns True for one
\* issued code, and one reset code authorizes at most one password change
C28_OneVerificationPerCode ==
    /\ NoRepeat(hist.wins)
    /\ NoRepeat([k \in 1..Len(hist.changes) |-> hist.changes[k].issue])

\* C29: the users collection holds at most one user per email, and a register
\* call for an email that already has a user is refused with 'Email already
\* registered' and inserts nothing, also when register calls overlap
C29_OneUserPerEmail ==
    /\ NoRepeat([k \in 1..Len(users) |-> users[k].email])
    /\ \A p \in Clients :
           (proc[p].op = "register" /\ proc[p].pc = "done"
                /\ proc[p].resp.status # 200)
               => proc[p].resp = [status |-> 400, message |-> "Email already registered"]

====
